---- MODULE Spec2Model ----
(***************************************************************************)
(* Model of the prompt router (ModelManager.process_request), capability  *)
(* detection (ModelManager.detect_capabilities), the submit_prompt route,  *)
(* the monthly cost ledger (CostOptimizer) and the hourly usage monitor    *)
(* (UsageMonitor) of the Hapivet prompt library.                           *)
(***************************************************************************)
EXTENDS Integers, Sequences, FiniteSets, TLC

(***************************************************************************)
(* Configuration: providers, configured models, credentials.               *)
(***************************************************************************)

\* The four provider names _initialize_models and _check_api_key_availability know.
Providers == {"openai", "anthropic", "google", "deepseek"}

\* The configured models, in the enumeration order of self.models (dict
\* insertion order of config.yaml, which is deployment data: the ids are the
\* ones the tests and get_user_usage name, the prices and limits are one
\* deployment's).  cost1k is cost_per_1k_tokens * 1000, the cost penalty.
ModelOrder == << "openai-gpt-4", "anthropic-claude-3", "google-gemini-pro", "deepseek-deepseek-chat" >>

ModelIds == { ModelOrder[i] : i \in 1..Len(ModelOrder) }

ModelConfig ==
  [ m \in ModelIds |->
      CASE m = "openai-gpt-4"           -> [provider |-> "openai",    cost1k |-> 30, max_tokens |-> 8192,  is_available |-> TRUE]
        [] m = "anthropic-claude-3"     -> [provider |-> "anthropic", cost1k |-> 15, max_tokens |-> 100000, is_available |-> TRUE]
        [] m = "google-gemini-pro"      -> [provider |-> "google",    cost1k |-> 0,  max_tokens |-> 32768, is_available |-> TRUE]
        [] m = "deepseek-deepseek-chat" -> [provider |-> "deepseek",  cost1k |-> 0,  max_tokens |-> 4096,  is_available |-> TRUE] ]

\* The literal placeholder each provider's credential is compared against.
Placeholder(p) == "your_" \o p \o "_key"

\* Credential values a deployment may hold: unset, blank, the placeholder, a real key.
KeyValues(p) == {"", " ", Placeholder(p), "sk-live"}

\* str.strip() on the credential values above.
Strip(s) == IF s = " " THEN "" ELSE s

(***************************************************************************)
(* Requests.                                                               *)
(***************************************************************************)

\* Prompts by size: chars is len(prompt), tiktoken the cl100k token count.
Prompts ==
  { [chars |-> 40,     tiktoken |-> 9],
    [chars |-> 20000,  tiktoken |-> 4500],
    [chars |-> 36000,  tiktoken |-> 8500],
    [chars |-> 500000, tiktoken |-> 120000] }

NoPreference == "None"

Preferences == {NoPreference, "auto", "openai-gpt-4", "deepseek-deepseek-chat", "invalid-model"}

\* Request ids a caller may give; "" is the absent id.
CallerIds == {"", "req-1"}

\* Capability profiles detect_capabilities can return (a cross-section).
Profiles ==
  { [primary_task |-> "text_generation",   context_length |-> "short", domain |-> "general", specific_requirements |-> {}],
    [primary_task |-> "coding",            context_length |-> "short", domain |-> "technical", specific_requirements |-> {"open_source"}],
    [primary_task |-> "document_analysis", context_length |-> "long",  domain |-> "legal",   specific_requirements |-> {"safety_focused"}] }

VARIABLES
  api_keys,         \* config_manager.settings.<provider>_api_key
  submitted,        \* the PromptRequest as the caller built it
  request,          \* the PromptRequest as process_request holds it
  capabilities,     \* detect_capabilities(request.prompt)
  pc,               \* position of process_request
  calls,            \* generate_response calls issued for the request, in order
  fallback_models,  \* the list get_model_fallback_order returned
  idx,              \* position of the fallback loop
  last_error,       \* last_error of process_request
  response,         \* the PromptResponse returned
  raised,           \* the error process_request raised
  uuids             \* number of uuid4 values drawn

routerVars == << api_keys, submitted, request, capabilities, pc, calls,
                 fallback_models, idx, last_error, response, raised, uuids >>

VARIABLES
  current_month,   \* datetime.utcnow().strftime('%Y-%m'), as a month number
  redis_monthly,   \* Redis: monthly_usage:<provider>:<month> -> JSON text or Nil
  constructed,     \* the CostOptimizer instances that exist
  monthly_usage,   \* self.monthly_usage of each instance
  ledger_pc,       \* position of each instance's record_usage
  ledger_call,     \* the (provider, month) key of the record_usage call in progress
  recorded         \* history: every record_usage call so far, summed per provider and month

ledgerVars == << current_month, redis_monthly, constructed, monthly_usage,
                 ledger_pc, ledger_call, recorded >>

VARIABLES
  redis_usage,       \* Redis: usage:<user>:<model>:<hour> -> text or Nil
  redis_alert,       \* Redis: the alert:<user>:<type> cooldown keys that exist
  redis_historical,  \* Redis: historical:<user>:<model> -> JSON list or Nil
  db_requests,       \* rows of table requests, in insertion order
  db_alerts,         \* rows of table usage_alerts, in insertion order
  mon_pc,            \* position of each worker's record_usage
  mon_usage,         \* the TokenUsage each worker records
  mon_current,       \* local current_usage of record_usage (the GET result)
  mon_new,           \* local new_usage
  mon_rule,          \* the anomaly rule being evaluated
  mon_hist,          \* local historical_data of _check_abnormal_patterns
  mon_started        \* number of record_usage calls started

monitorVars == << redis_usage, redis_alert, redis_historical, db_requests, db_alerts,
                  mon_pc, mon_usage, mon_current, mon_new, mon_rule, mon_hist, mon_started >>

VARIABLES
  http_status        \* outcome of submit_prompt: "none" while it runs, then the HTTP status

apiVars == << http_status >>

VARIABLES
  detect_pc,         \* "done" once detect_capabilities has been called
  prompt_words,      \* the words the prompt text is made of
  prompt_text,       \* the prompt detect_capabilities is called with
  detected           \* the dict detect_capabilities returned

detectVars == << detect_pc, prompt_words, prompt_text, detected >>

VARIABLES
  alert_failures     \* history: the (user, type, usage) of every _create_alert that raised

faultVars == << alert_failures >>

vars == << routerVars, ledgerVars, monitorVars, apiVars, detectVars, faultVars >>

NoRequest == [id |-> "", prompt |-> [chars |-> 0, tiktoken |-> 0], model_preference |-> NoPreference]
NoProfile == [primary_task |-> "text_generation", context_length |-> "short", domain |-> "general", specific_requirements |-> {}]
NoResponse == [id |-> "", request_id |-> "", model_used |-> ""]
NoError == [kind |-> "none", last |-> "none"]
NoCapabilities == [primary_task |-> "None", secondary_tasks |-> << >>, context_length |-> "short",
                   complexity |-> "simple", domain |-> "general", specific_requirements |-> << >>]

Uuid(n) == "uuid-" \o ToString(n)


(***************************************************************************)
(* Eligibility, scoring and fallback order.                                *)
(***************************************************************************)

\* ModelManager._check_api_key_availability
CheckApiKeyAvailability(m) ==
  LET p   == ModelConfig[m].provider
      key == api_keys[p]
  IN  /\ p \in Providers
      /\ key # ""
      /\ Strip(key) # ""
      /\ key # Placeholder(p)

\* estimate_tokens of each adapter: tiktoken for OpenAI, len(text) // 4 for the others.
EstimateTokens(m, prompt) ==
  IF ModelConfig[m].provider = "openai" THEN prompt.tiktoken ELSE prompt.chars \div 4

\* BaseAIModel.is_available_for_request
IsAvailableForRequest(m, req) ==
  /\ ModelConfig[m].is_available
  /\ ~ (EstimateTokens(m, req.prompt) > ModelConfig[m].max_tokens)

\* The eligibility filter of get_model_fallback_order (both checks).
Eligible(m, req) == CheckApiKeyAvailability(m) /\ IsAvailableForRequest(m, req)

PrimaryTaskBonus(task, p) ==
  CASE task = "coding" ->
         (CASE p = "deepseek" -> 15 [] p = "openai" -> 12 [] p = "google" -> 8 [] p = "anthropic" -> 6 [] OTHER -> 0)
    [] task = "conversation" ->
         (CASE p = "openai" -> 15 [] p = "anthropic" -> 10 [] p = "google" -> 8 [] p = "deepseek" -> 6 [] OTHER -> 0)
    [] task = "document_analysis" ->
         (CASE p = "anthropic" -> 15 [] p = "openai" -> 10 [] p = "google" -> 12 [] p = "deepseek" -> 6 [] OTHER -> 0)
    [] task = "visual_analysis" ->
         (CASE p = "google" -> 15 [] p = "openai" -> 12 [] p = "deepseek" -> 10 [] p = "anthropic" -> 6 [] OTHER -> 0)
    [] task = "mathematical_reasoning" ->
         (CASE p = "deepseek" -> 12 [] p = "google" -> 10 [] p = "openai" -> 8 [] p = "anthropic" -> 8 [] OTHER -> 0)
    [] task = "logical_reasoning" ->
         (CASE p = "anthropic" -> 15 [] p = "openai" -> 12 [] p = "google" -> 8 [] p = "deepseek" -> 8 [] OTHER -> 0)
    [] OTHER -> 0

ContextLengthBonus(len, p) ==
  IF len = "long"
  THEN (CASE p = "anthropic" -> 8 [] p = "google" -> 6 [] p = "openai" -> 4 [] p = "deepseek" -> 4 [] OTHER -> 0)
  ELSE 0

RequirementBonus(r, p) ==
  CASE r = "open_source" /\ p = "deepseek"       -> 10
    [] r = "safety_focused" /\ p = "anthropic"   -> 10
    [] r = "google_ecosystem" /\ p = "google"    -> 10
    [] r = "multimodal" /\ p = "google"          -> 8
    [] r = "conversational" /\ p = "openai"      -> 8
    [] OTHER -> 0

RECURSIVE SumRequirementBonus(_, _)
SumRequirementBonus(rs, p) ==
  IF rs = {} THEN 0
  ELSE LET r == CHOOSE x \in rs : TRUE
       IN  RequirementBonus(r, p) + SumRequirementBonus(rs \ {r}, p)

DomainBonus(d, p) ==
  CASE d = "legal" /\ p = "anthropic"     -> 8
    [] d = "medical" /\ p = "anthropic"   -> 8
    [] d = "scientific" /\ p = "google"   -> 8
    [] d = "technical" /\ p = "openai"    -> 6
    [] OTHER -> 0

\* Mutant of CostPenalty: the penalty is added to the score.
CostPenalty_Negated(cost1k) == 0 - cost1k

\* cost_penalty = model.cost_per_1k_tokens * 1000 (cost1k is that product).
CostPenalty(cost1k) == cost1k

\* ModelManager.calculate_model_score for a model of the given provider and
\* cost; the keys of model_strengths are the four providers.
ModelScore(model, caps) ==
  LET p == model.provider
  IN  IF p \notin Providers THEN 0
      ELSE PrimaryTaskBonus(caps.primary_task, p)
           + ContextLengthBonus(caps.context_length, p)
           + SumRequirementBonus(caps.specific_requirements, p)
           + DomainBonus(caps.domain, p)
           - CostPenalty(model.cost1k)

\* ModelManager.calculate_model_score of a configured model.
CalculateModelScore(m, caps) == ModelScore(ModelConfig[m], caps)

\* Mutant of InsertByScore: equal scores are put in reverse order.
RECURSIVE InsertByScore_TiesReversed(_, _, _)
InsertByScore_TiesReversed(x, s, caps) ==
  IF s = << >> THEN << x >>
  ELSE IF CalculateModelScore(Head(s), caps) > CalculateModelScore(x, caps)
       THEN << Head(s) >> \o InsertByScore_TiesReversed(x, Tail(s), caps)
       ELSE << x >> \o s

\* list.sort(key=score, reverse=True): stable, descending.  Insert x after
\* every element whose score is >= its own.
RECURSIVE InsertByScore(_, _, _)
InsertByScore(x, s, caps) ==
  IF s = << >> THEN << x >>
  ELSE IF CalculateModelScore(Head(s), caps) >= CalculateModelScore(x, caps)
       THEN << Head(s) >> \o InsertByScore(x, Tail(s), caps)
       ELSE << x >> \o s

RECURSIVE SortByScore(_, _)
SortByScore(s, caps) ==
  IF s = << >> THEN << >>
  ELSE InsertByScore(s[Len(s)], SortByScore(SubSeq(s, 1, Len(s) - 1), caps), caps)

\* ModelManager.get_model_fallback_order
GetModelFallbackOrder(req, caps) ==
  SortByScore(SelectSeq(ModelOrder, LAMBDA m : Eligible(m, req)), caps)


(***************************************************************************)
(* ModelManager.process_request, one action per stretch between awaits.    *)
(***************************************************************************)

Requests == [id : CallerIds, prompt : Prompts, model_preference : Preferences]

\* The error a failed generate_response call raises: it names the call.
ErrorOf(m, n) == "error-" \o ToString(n) \o "-" \o m

Pending(m) == [model |-> m, status |-> "pending", error |-> "none"]

\* The last call of the log, completed with its outcome.
Completed(ok) ==
  LET c == calls[Len(calls)]
  IN  [calls EXCEPT ![Len(calls)] =
         [model  |-> c.model,
          status |-> IF ok THEN "ok" ELSE "failed",
          error  |-> IF ok THEN "none" ELSE ErrorOf(c.model, Len(calls))]]

\* Mutant of CreateResponse: the response's own id is stored as request_id.
CreateResponse_OwnId(m, req, n) ==
  [id |-> Uuid(n), request_id |-> Uuid(n), model_used |-> m]

\* BaseAIModel.create_response
CreateResponse(m, req, n) ==
  [id |-> Uuid(n), request_id |-> req.id, model_used |-> m]

\* Mutant of RequestsSpecificModel: the preference is ignored.
RequestsSpecificModel_Ignored(req) == FALSE

\* process_request: "if request.model_preference and request.model_preference != 'auto'"
RequestsSpecificModel(req) ==
  /\ req.model_preference # NoPreference
  /\ req.model_preference # ""
  /\ req.model_preference # "auto"

\* process_request: the lookup and credential check that guard the preferred attempt.
TriesPreferred(req) ==
  /\ RequestsSpecificModel(req)
  /\ req.model_preference \in ModelIds
  /\ CheckApiKeyAvailability(req.model_preference)

\* process_request from "fallback_models = ..." to the first call of the loop
\* (or to the raise when the list is empty); log is the call log so far.
EnterFallback(req, caps, log) ==
  LET fm == GetModelFallbackOrder(req, caps)
  IN  /\ fallback_models' = fm
      /\ last_error' = "none"
      /\ IF fm = << >>
         THEN /\ pc' = "raised"
              /\ raised' = [kind |-> "NoSuitableModel", last |-> "none"]
              /\ calls' = log
              /\ idx' = 0
         ELSE /\ pc' = "fallback"
              /\ raised' = raised
              /\ calls' = Append(log, Pending(fm[1]))
              /\ idx' = 1

\* process_request up to its first await (or to its raise).
ProcessRequest(req, caps) ==
  /\ pc = "idle"
  /\ submitted' = req
  /\ LET assign == (req.id = "")
         r      == IF assign THEN [req EXCEPT !.id = Uuid(uuids + 1)] ELSE req
     IN  /\ request' = r
         /\ uuids' = IF assign THEN uuids + 1 ELSE uuids
         /\ capabilities' = caps
         /\ IF TriesPreferred(r)
            THEN /\ pc' = "preferred"
                 /\ calls' = << Pending(r.model_preference) >>
                 /\ UNCHANGED << fallback_models, idx, last_error, raised >>
            ELSE EnterFallback(r, caps, << >>)
  /\ UNCHANGED << api_keys, response >>
  /\ UNCHANGED << ledgerVars, monitorVars, apiVars, detectVars, faultVars >>

\* The preferred model's generate_response returns (ok) or raises.
PreferredReturns(ok) ==
  /\ pc = "preferred"
  /\ IF ok
     THEN /\ pc' = "returned"
          /\ calls' = Completed(TRUE)
          /\ response' = CreateResponse(calls[Len(calls)].model, request, uuids + 1)
          /\ uuids' = uuids + 1
          /\ UNCHANGED << fallback_models, idx, last_error, raised >>
     ELSE /\ EnterFallback(request, capabilities, Completed(FALSE))
          /\ UNCHANGED << response, uuids >>
  /\ UNCHANGED << api_keys, submitted, request, capabilities >>
  /\ UNCHANGED << ledgerVars, monitorVars, apiVars, detectVars, faultVars >>

\* Mutant of FallbackReturns: a success does not leave the loop while
\* candidates remain.
FallbackReturns_KeepsGoing(ok) ==
  /\ pc = "fallback"
  /\ IF idx < Len(fallback_models)
     THEN /\ pc' = "fallback"
          /\ idx' = idx + 1
          /\ calls' = Append(Completed(ok), Pending(fallback_models[idx + 1]))
          /\ last_error' = IF ok THEN last_error ELSE ErrorOf(fallback_models[idx], Len(calls))
          /\ UNCHANGED << response, uuids, raised >>
     ELSE IF ok
          THEN /\ pc' = "returned"
               /\ calls' = Completed(TRUE)
               /\ response' = CreateResponse(fallback_models[idx], request, uuids + 1)
               /\ uuids' = uuids + 1
               /\ UNCHANGED << idx, last_error, raised >>
          ELSE /\ pc' = "raised"
               /\ calls' = Completed(FALSE)
               /\ last_error' = ErrorOf(fallback_models[idx], Len(calls))
               /\ raised' = [kind |-> "AllModelsFailed", last |-> ErrorOf(fallback_models[idx], Len(calls))]
               /\ UNCHANGED << idx, response, uuids >>
  /\ UNCHANGED << api_keys, submitted, request, capabilities, fallback_models >>
  /\ UNCHANGED << ledgerVars, monitorVars, apiVars, detectVars, faultVars >>

\* The current fallback candidate's generate_response returns (ok) or raises.
FallbackReturns(ok) ==
  /\ pc = "fallback"
  /\ IF ok
     THEN /\ pc' = "returned"
          /\ calls' = Completed(TRUE)
          /\ response' = CreateResponse(fallback_models[idx], request, uuids + 1)
          /\ uuids' = uuids + 1
          /\ UNCHANGED << idx, last_error, raised >>
     ELSE LET e == ErrorOf(fallback_models[idx], Len(calls))
          IN  /\ last_error' = e
              /\ IF idx < Len(fallback_models)
                 THEN /\ pc' = "fallback"
                      /\ idx' = idx + 1
                      /\ calls' = Append(Completed(FALSE), Pending(fallback_models[idx + 1]))
                      /\ UNCHANGED raised
                 ELSE /\ pc' = "raised"
                      /\ calls' = Completed(FALSE)
                      /\ raised' = [kind |-> "AllModelsFailed", last |-> e]
                      /\ UNCHANGED idx
              /\ UNCHANGED << response, uuids >>
  /\ UNCHANGED << api_keys, submitted, request, capabilities, fallback_models >>
  /\ UNCHANGED << ledgerVars, monitorVars, apiVars, detectVars, faultVars >>

(***************************************************************************)
(* CostOptimizer: the monthly ledger.  Every process holds its own         *)
(* CostOptimizer (the module-level instance of the routes) with its        *)
(* in-memory monthly_usage; all share the Redis keys monthly_usage:<p>:<m>.*)
(***************************************************************************)

\* CostOptimizer instances (one per server process).
Instances == {1, 2}

\* Provider names record_usage is called with (model_used.split('-')[0]).
LedgerProviders == {"openai", "deepseek"}

\* config_manager.get_free_tier_limits(): the providers with a free tier, in
\* the order of the dict, and their monthly token limits.
FreeTierOrder == << "openai", "anthropic" >>
FreeTierProviders == { FreeTierOrder[k] : k \in 1..Len(FreeTierOrder) }
free_tier_limits == [p \in FreeTierProviders |-> IF p = "openai" THEN 100 ELSE 150]

\* Usage events: tokens and cost, the cost a float in units of $0.001.
UsageTokens == {50, 100}
UsageCosts == {1, 2, 3}

\* Largest number of record_usage calls in one behaviour.
MaxRecords == 3

\* The calendar months a behaviour spans, numbered from 1.
LastMonth == 2
Months == 1..LastMonth

\* Significand width of the floats of the model (Python's float has 53 bits;
\* the rounding rule, round-half-to-even, is the same).
FloatPrecision == 3

RECURSIVE Pow2(_)
Pow2(k) == IF k = 0 THEN 1 ELSE 2 * Pow2(k - 1)

\* Number of low bits an exact value n >= 0 loses when stored as a float.
RECURSIVE DroppedBits(_)
DroppedBits(n) == IF n < Pow2(FloatPrecision) THEN 0 ELSE 1 + DroppedBits(n \div 2)

\* The float nearest to the exact value n >= 0 (ties to the even significand).
FloatRound(n) ==
  LET e    == DroppedBits(n)
      unit == Pow2(e)
      q    == n \div unit
      r    == n % unit
  IN  IF e = 0 THEN n
      ELSE IF 2 * r > unit \/ (2 * r = unit /\ q % 2 = 1)
           THEN (q + 1) * unit
           ELSE q * unit

\* float + float
FloatAdd(a, b) == FloatRound(a + b)

ZeroUsage == [tokens_used |-> 0, cost |-> 0, requests |-> 0]

\* json.dumps of a usage record, and json.loads of the stored text.
JsonDumps(rec) == << "tokens_used", rec.tokens_used, "cost", rec.cost, "requests", rec.requests >>
JsonLoads(txt) == [tokens_used |-> txt[2], cost |-> txt[4], requests |-> txt[6]]

\* A Redis key that does not exist (GET returns None).
Nil == << >>

MonthlyKey(p, month) == << p, month >>

\* The monthly_usage keys of Redis a behaviour can touch.
MonthlyKeys == (LedgerProviders \cup FreeTierProviders) \X Months

\* record_usage: the three "+=" on the provider's record.
AddUsage(rec, tokens, cost) ==
  [tokens_used |-> rec.tokens_used + tokens,
   cost        |-> FloatAdd(rec.cost, cost),
   requests    |-> rec.requests + 1]

\* self.monthly_usage.get(provider), a missing provider reading as zeros.
UsageOf(usage, p) == IF p \in DOMAIN usage THEN usage[p] ELSE ZeroUsage

\* What an atomic counter would hold after one more event (history only).
Accumulate(rec, tokens, cost) ==
  [tokens_used |-> rec.tokens_used + tokens,
   cost        |-> FloatRound(rec.cost + cost),
   requests    |-> rec.requests + 1]

\* CostOptimizer.__init__ with _load_monthly_usage: only the providers of
\* free_tier_limits are loaded.
Construct(i) ==
  /\ i \notin constructed
  /\ constructed' = constructed \cup {i}
  /\ monthly_usage' =
       [monthly_usage EXCEPT ![i] =
          [p \in FreeTierProviders |->
             LET usage_data == redis_monthly[MonthlyKey(p, current_month)]
             IN  IF usage_data # Nil THEN JsonLoads(usage_data) ELSE ZeroUsage]]
  /\ UNCHANGED << current_month, redis_monthly, ledger_pc, ledger_call, recorded >>
  /\ UNCHANGED << routerVars, monitorVars, apiVars, detectVars, faultVars >>

RECURSIVE SumRequests(_, _)
SumRequests(usage, ps) ==
  IF ps = {} THEN 0
  ELSE LET p == CHOOSE x \in ps : TRUE
       IN  usage[p].requests + SumRequests(usage, ps \ {p})

\* CostOptimizer.record_usage up to the Redis write: the key of the current
\* month, then the in-memory update.
RecordUsageUpdate(i, provider, tokens, cost) ==
  /\ i \in constructed
  /\ ledger_pc[i] = "idle"
  /\ SumRequests(recorded, MonthlyKeys) < MaxRecords
  /\ monthly_usage' =
       [monthly_usage EXCEPT ![i] =
          [p \in DOMAIN @ \cup {provider} |->
             IF p = provider THEN AddUsage(UsageOf(@, p), tokens, cost) ELSE @[p]]]
  /\ ledger_pc' = [ledger_pc EXCEPT ![i] = "setex"]
  /\ ledger_call' = [ledger_call EXCEPT ![i] = MonthlyKey(provider, current_month)]
  /\ recorded' = [recorded EXCEPT ![MonthlyKey(provider, current_month)] = Accumulate(@, tokens, cost)]
  /\ UNCHANGED << current_month, redis_monthly, constructed >>
  /\ UNCHANGED << routerVars, monitorVars, apiVars, detectVars, faultVars >>

\* CostOptimizer.record_usage: redis_client.setex(key, 2592000, json.dumps(...)).
RecordUsageStore(i) ==
  /\ ledger_pc[i] = "setex"
  /\ redis_monthly' =
       [redis_monthly EXCEPT ![ledger_call[i]] =
          JsonDumps(monthly_usage[i][ledger_call[i][1]])]
  /\ ledger_pc' = [ledger_pc EXCEPT ![i] = "idle"]
  /\ UNCHANGED << current_month, constructed, monthly_usage, ledger_call, recorded >>
  /\ UNCHANGED << routerVars, monitorVars, apiVars, detectVars, faultVars >>

\* The calendar month changes (datetime.utcnow() is read anew by every call).
MonthChanges ==
  /\ current_month < LastMonth
  /\ current_month' = current_month + 1
  /\ UNCHANGED << redis_monthly, constructed, monthly_usage, ledger_pc, ledger_call, recorded >>
  /\ UNCHANGED << routerVars, monitorVars, apiVars, detectVars, faultVars >>

\* get_remaining_free_tier: tokens_remaining of the result (percentage_used,
\* a float ratio that only feeds the recommendation texts, is left out).
GetRemainingFreeTier(i, provider) ==
  IF provider \notin FreeTierProviders THEN 0
  ELSE LET limit     == free_tier_limits[provider]
           used      == UsageOf(monthly_usage[i], provider).tokens_used
       IN  IF limit - used > 0 THEN limit - used ELSE 0

\* get_cost_analysis: "analysis['total_cost'] += usage.get('cost', 0.0)" and
\* "analysis['total_tokens'] += usage.get('tokens_used', 0)" over the
\* providers of free_tier_limits, in their order.
RECURSIVE TotalCost(_, _)
TotalCost(i, providers) ==
  IF providers = << >> THEN 0
  ELSE FloatAdd(TotalCost(i, SubSeq(providers, 1, Len(providers) - 1)),
                UsageOf(monthly_usage[i], providers[Len(providers)]).cost)

RECURSIVE TotalTokens(_, _)
TotalTokens(i, providers) ==
  IF providers = << >> THEN 0
  ELSE TotalTokens(i, SubSeq(providers, 1, Len(providers) - 1))
         + UsageOf(monthly_usage[i], providers[Len(providers)]).tokens_used

\* "for provider in self.free_tier_limits.keys()"
AnalysedProviders(i) == FreeTierOrder

\* CostOptimizer.get_cost_analysis (the totals and the per-provider parts;
\* the recommendation texts are left out).
GetCostAnalysis(i) ==
  [monthly_usage    |-> [p \in FreeTierProviders |-> UsageOf(monthly_usage[i], p)],
   free_tier_status |-> [p \in FreeTierProviders |-> GetRemainingFreeTier(i, p)],
   total_cost       |-> TotalCost(i, AnalysedProviders(i)),
   total_tokens     |-> TotalTokens(i, AnalysedProviders(i))]

\* Mutant of EfficiencyScore: the bonus is applied whether or not free-tier
\* tokens remain.
EfficiencyScore_AlwaysHalved(cost, tokens_remaining) == cost

\* get_provider_ranking: efficiency_score = cost, "*= 0.5" when
\* tokens_remaining > 0.  The cost is held in units of $0.001; the score is
\* held in units of $0.0005 (halving a binary float is exact), so that it
\* stays an integer: cost when halved, 2 * cost when not.
EfficiencyScore(cost, tokens_remaining) ==
  IF tokens_remaining > 0 THEN cost ELSE 2 * cost

\* The rankings entry of one provider.
RankingEntry(i, provider) ==
  LET usage     == UsageOf(monthly_usage[i], provider)
      remaining == GetRemainingFreeTier(i, provider)
  IN  [provider            |-> provider,
       cost                |-> usage.cost,
       tokens_used         |-> usage.tokens_used,
       free_tier_remaining |-> remaining,
       efficiency_score    |-> EfficiencyScore(usage.cost, remaining)]

\* rankings.sort(key=lambda x: x['efficiency_score']): stable, ascending.
RECURSIVE InsertByEfficiency(_, _)
InsertByEfficiency(entry, s) ==
  IF s = << >> THEN << entry >>
  ELSE IF Head(s).efficiency_score <= entry.efficiency_score
       THEN << Head(s) >> \o InsertByEfficiency(entry, Tail(s))
       ELSE << entry >> \o s

RECURSIVE SortByEfficiency(_)
SortByEfficiency(s) ==
  IF s = << >> THEN << >>
  ELSE InsertByEfficiency(s[Len(s)], SortByEfficiency(SubSeq(s, 1, Len(s) - 1)))

\* CostOptimizer.get_provider_ranking
GetProviderRanking(i) ==
  SortByEfficiency([k \in 1..Len(FreeTierOrder) |-> RankingEntry(i, FreeTierOrder[k])])

(***************************************************************************)
(* UsageMonitor: hourly counters, anomaly rules, alerts with cooldown.     *)
(* A worker is one record_usage call in progress; the Redis keys and the   *)
(* database tables are shared by all workers.                              *)
(***************************************************************************)

Workers == {1, 2}

\* user_id values of TokenUsage (auth hands out str(user["id"])).
Users == {"1", "2"}

\* A user_id that is not the text of an integer (TokenUsage.user_id is a str;
\* the demo route names its user "demo-user").
OtherUsers == {"demo-user"}

MonitorModels == {"openai-gpt-4", "google-gemini-pro"}

\* The (user, provider) pairs of the hourly counters and of the windows.
UsageKeys == (Users \cup OtherUsers) \X MonitorModels

MonitorTokens == {400, 600, 10500}

\* Largest number of UsageMonitor.record_usage calls in one behaviour.
MaxCalls == 3

spike_threshold == 1000
fraud_threshold == 10000

\* Entries kept in the historical window.
HistoryLength == 24

AlertTypes == {"spike", "fraud", "abnormal"}

\* int(user_id); -1 stands for the ValueError of a text that is no integer.
IntOfUserId(u) == CASE u = "1" -> 1 [] u = "2" -> 2 [] OTHER -> -1

\* The text Redis stores for an integer, and int() of it.
IntText(n) == << "int", n >>
ParseInt(txt) == txt[2]

\* json.dumps / json.loads of the historical list.
JsonList(seq) == << "list", seq >>
LoadsList(txt) == txt[2]

UsageKey(usage) == << usage.user_id, usage.model_id >>
AlertKey(user, type) == << user, type >>

TokenUsages == [user_id : Users, model_id : MonitorModels, tokens_used : MonitorTokens]

\* record_usage: key construction and redis_client.get(key).
RecordUsageGet(w, usage) ==
  /\ mon_pc[w] = "idle"
  /\ mon_started < MaxCalls
  /\ mon_started' = mon_started + 1
  /\ mon_usage' = [mon_usage EXCEPT ![w] = usage]
  /\ LET current_usage == redis_usage[UsageKey(usage)]
     IN  mon_current' = [mon_current EXCEPT ![w] =
                            IF current_usage # Nil THEN ParseInt(current_usage) ELSE 0]
  /\ mon_pc' = [mon_pc EXCEPT ![w] = "setex"]
  /\ UNCHANGED << redis_usage, redis_alert, redis_historical, db_requests, db_alerts,
                  mon_new, mon_rule, mon_hist >>
  /\ UNCHANGED << routerVars, ledgerVars, apiVars, detectVars, faultVars >>

\* record_usage: new_usage = current_usage + tokens_used; setex(key, 3600, new_usage).
RecordUsageSetex(w) ==
  /\ mon_pc[w] = "setex"
  /\ LET new_usage == mon_current[w] + mon_usage[w].tokens_used
     IN  /\ mon_new' = [mon_new EXCEPT ![w] = new_usage]
         /\ redis_usage' = [redis_usage EXCEPT ![UsageKey(mon_usage[w])] = IntText(new_usage)]
  /\ mon_pc' = [mon_pc EXCEPT ![w] = "persist"]
  /\ UNCHANGED << redis_alert, redis_historical, db_requests, db_alerts,
                  mon_usage, mon_current, mon_rule, mon_hist, mon_started >>
  /\ UNCHANGED << routerVars, ledgerVars, apiVars, detectVars, faultVars >>

\* Mutant of RecordUsagePersist: a failure of the Request row is swallowed
\* where it happens and the anomaly rules are evaluated all the same.
RecordUsagePersist_GoesOn(w) ==
  /\ mon_pc[w] = "persist"
  /\ db_requests' = IF IntOfUserId(mon_usage[w].user_id) = -1 THEN db_requests
                    ELSE Append(db_requests,
                                [user_id     |-> IntOfUserId(mon_usage[w].user_id),
                                 model_used  |-> mon_usage[w].model_id,
                                 tokens_used |-> mon_usage[w].tokens_used])
  /\ mon_pc' = [mon_pc EXCEPT ![w] = "check"]
  /\ mon_rule' = [mon_rule EXCEPT ![w] = "spike"]
  /\ UNCHANGED << redis_usage, redis_alert, redis_historical, db_alerts,
                  mon_usage, mon_current, mon_new, mon_hist, mon_started >>
  /\ UNCHANGED << routerVars, ledgerVars, apiVars, detectVars, faultVars >>

\* record_usage: the Request row.  int(user_id) raising ends the call in the
\* outer except (logged, swallowed).
RecordUsagePersist(w) ==
  /\ mon_pc[w] = "persist"
  /\ IF IntOfUserId(mon_usage[w].user_id) = -1
     THEN /\ mon_pc' = [mon_pc EXCEPT ![w] = "idle"]
          /\ UNCHANGED << db_requests, mon_rule >>
     ELSE /\ db_requests' = Append(db_requests,
                                   [user_id     |-> IntOfUserId(mon_usage[w].user_id),
                                    model_used  |-> mon_usage[w].model_id,
                                    tokens_used |-> mon_usage[w].tokens_used])
          /\ mon_pc' = [mon_pc EXCEPT ![w] = "check"]
          /\ mon_rule' = [mon_rule EXCEPT ![w] = "spike"]
  /\ UNCHANGED << redis_usage, redis_alert, redis_historical, db_alerts,
                  mon_usage, mon_current, mon_new, mon_hist, mon_started >>
  /\ UNCHANGED << routerVars, ledgerVars, apiVars, detectVars, faultVars >>

\* Mutant of AfterRule: the fraud rule hangs on the spike rule with "elif",
\* so a total above the spike threshold ends the threshold rules.
AfterRule_ElseIf(w) ==
  IF mon_rule[w] = "spike" /\ mon_new[w] <= spike_threshold
  THEN /\ mon_pc' = [mon_pc EXCEPT ![w] = "check"]
       /\ mon_rule' = [mon_rule EXCEPT ![w] = "fraud"]
  ELSE IF mon_rule[w] \in {"spike", "fraud"}
  THEN /\ mon_pc' = [mon_pc EXCEPT ![w] = "abnormal"]
       /\ mon_rule' = [mon_rule EXCEPT ![w] = "abnormal"]
  ELSE /\ mon_pc' = [mon_pc EXCEPT ![w] = "historical"]
       /\ mon_rule' = mon_rule

\* Mutant of ExceedsThreshold: the comparison admits equality.
ExceedsThreshold_OrEqual(rule, current_usage) ==
  \/ rule = "spike" /\ current_usage >= spike_threshold
  \/ rule = "fraud" /\ current_usage >= fraud_threshold

\* _check_for_anomalies: the conditions of the spike and the fraud rule.
ExceedsThreshold(rule, current_usage) ==
  \/ rule = "spike" /\ current_usage > spike_threshold
  \/ rule = "fraud" /\ current_usage > fraud_threshold

SeverityOf(rule) == IF rule = "fraud" THEN "high" ELSE "medium"

\* Where record_usage continues once a rule (and its alert) is done.
AfterRule(w) ==
  IF mon_rule[w] = "spike"
  THEN /\ mon_pc' = [mon_pc EXCEPT ![w] = "check"]
       /\ mon_rule' = [mon_rule EXCEPT ![w] = "fraud"]
  ELSE IF mon_rule[w] = "fraud"
  THEN /\ mon_pc' = [mon_pc EXCEPT ![w] = "abnormal"]
       /\ mon_rule' = [mon_rule EXCEPT ![w] = "abnormal"]
  ELSE /\ mon_pc' = [mon_pc EXCEPT ![w] = "historical"]
       /\ mon_rule' = mon_rule

\* Mutant of CheckThreshold: the cooldown key is not consulted.
CheckThreshold_NoCooldown(w) ==
  /\ mon_pc[w] = "check"
  /\ IF ExceedsThreshold(mon_rule[w], mon_new[w])
     THEN /\ mon_pc' = [mon_pc EXCEPT ![w] = "alert_row"]
          /\ mon_rule' = mon_rule
     ELSE AfterRule(w)
  /\ UNCHANGED << redis_usage, redis_alert, redis_historical, db_requests, db_alerts,
                  mon_usage, mon_current, mon_new, mon_hist, mon_started >>
  /\ UNCHANGED << routerVars, ledgerVars, apiVars, detectVars, faultVars >>

\* _check_for_anomalies, spike then fraud: the threshold test and, when it
\* holds, _create_alert's redis_client.exists(alert_key).
CheckThreshold(w) ==
  /\ mon_pc[w] = "check"
  /\ IF /\ ExceedsThreshold(mon_rule[w], mon_new[w])
        /\ AlertKey(mon_usage[w].user_id, mon_rule[w]) \notin redis_alert
     THEN /\ mon_pc' = [mon_pc EXCEPT ![w] = "alert_row"]
          /\ mon_rule' = mon_rule
     ELSE AfterRule(w)
  /\ UNCHANGED << redis_usage, redis_alert, redis_historical, db_requests, db_alerts,
                  mon_usage, mon_current, mon_new, mon_hist, mon_started >>
  /\ UNCHANGED << routerVars, ledgerVars, apiVars, detectVars, faultVars >>

\* _create_alert: the usage_alerts row (usage is the total the message quotes).
CreateAlertRow(w) ==
  /\ mon_pc[w] = "alert_row"
  /\ db_alerts' = Append(db_alerts,
                         [user_id    |-> IntOfUserId(mon_usage[w].user_id),
                          alert_type |-> mon_rule[w],
                          severity   |-> SeverityOf(mon_rule[w]),
                          usage      |-> mon_new[w]])
  /\ mon_pc' = [mon_pc EXCEPT ![w] = "alert_cooldown"]
  /\ UNCHANGED << redis_usage, redis_alert, redis_historical, db_requests,
                  mon_usage, mon_current, mon_new, mon_rule, mon_hist, mon_started >>
  /\ UNCHANGED << routerVars, ledgerVars, apiVars, detectVars, faultVars >>

\* _create_alert: redis_client.setex(alert_key, self.alert_cooldown, "1").
CreateAlertCooldown(w) ==
  /\ mon_pc[w] = "alert_cooldown"
  /\ redis_alert' = redis_alert \cup {AlertKey(mon_usage[w].user_id, mon_rule[w])}
  /\ AfterRule(w)
  /\ UNCHANGED << redis_usage, redis_historical, db_requests, db_alerts,
                  mon_usage, mon_current, mon_new, mon_hist, mon_started >>
  /\ UNCHANGED << routerVars, ledgerVars, apiVars, detectVars, faultVars >>

\* Mutant of CreateAlertRowFails: the cooldown key is written although the
\* row was not committed.
CreateAlertRowFails_SetsKey(w) ==
  /\ mon_pc[w] = "alert_row"
  /\ alert_failures' = alert_failures \cup {<< mon_usage[w].user_id, mon_rule[w], mon_new[w] >>}
  /\ redis_alert' = redis_alert \cup {AlertKey(mon_usage[w].user_id, mon_rule[w])}
  /\ AfterRule(w)
  /\ UNCHANGED << redis_usage, redis_historical, db_requests, db_alerts,
                  mon_usage, mon_current, mon_new, mon_hist, mon_started >>
  /\ UNCHANGED << routerVars, ledgerVars, apiVars, detectVars >>

\* _create_alert: the database session raises; the except of _create_alert
\* logs it, no row and no cooldown key are written, the caller goes on.
CreateAlertRowFails(w) ==
  /\ mon_pc[w] = "alert_row"
  /\ alert_failures' = alert_failures \cup {<< mon_usage[w].user_id, mon_rule[w], mon_new[w] >>}
  /\ AfterRule(w)
  /\ UNCHANGED << redis_usage, redis_alert, redis_historical, db_requests, db_alerts,
                  mon_usage, mon_current, mon_new, mon_hist, mon_started >>
  /\ UNCHANGED << routerVars, ledgerVars, apiVars, detectVars >>

\* _create_alert: the row is committed and the setex of the cooldown key
\* raises; the except of _create_alert logs it, the caller goes on.
CreateAlertCooldownFails(w) ==
  /\ mon_pc[w] = "alert_cooldown"
  /\ alert_failures' = alert_failures \cup {<< mon_usage[w].user_id, mon_rule[w], mon_new[w] >>}
  /\ AfterRule(w)
  /\ UNCHANGED << redis_usage, redis_alert, redis_historical, db_requests, db_alerts,
                  mon_usage, mon_current, mon_new, mon_hist, mon_started >>
  /\ UNCHANGED << routerVars, ledgerVars, apiVars, detectVars >>

\* The TTL of a cooldown key (alert_cooldown seconds) runs out: Redis drops it.
AlertKeyExpires(user, type) ==
  /\ AlertKey(user, type) \in redis_alert
  /\ redis_alert' = redis_alert \ {AlertKey(user, type)}
  /\ UNCHANGED << redis_usage, redis_historical, db_requests, db_alerts,
                  mon_pc, mon_usage, mon_current, mon_new, mon_rule, mon_hist, mon_started >>
  /\ UNCHANGED << routerVars, ledgerVars, apiVars, detectVars, faultVars >>

\* The hour changes between two calls: record_usage builds its counter keys
\* with the new hour, so the counters of the hour before are never read
\* again (they expire); the windows and the cooldown keys carry no hour.
HourChanges ==
  /\ \A w \in Workers : mon_pc[w] = "idle"
  /\ \E k \in UsageKeys : redis_usage[k] # Nil
  /\ redis_usage' = [k \in UsageKeys |-> Nil]
  /\ UNCHANGED << redis_alert, redis_historical, db_requests, db_alerts,
                  mon_pc, mon_usage, mon_current, mon_new, mon_rule, mon_hist, mon_started >>
  /\ UNCHANGED << routerVars, ledgerVars, apiVars, detectVars, faultVars >>

RECURSIVE SumSeq(_)
SumSeq(s) == IF s = << >> THEN 0 ELSE Head(s) + SumSeq(Tail(s))

\* Mutant of ExceedsAverage: the average is taken after the call's own total
\* has been appended to the window.
ExceedsAverage_AfterAppend(current_usage, historical_usage) ==
  current_usage * (Len(historical_usage) + 1) > 3 * (SumSeq(historical_usage) + current_usage)

\* current_usage > avg_usage * 3 with avg_usage = sum / len.
ExceedsAverage(current_usage, historical_usage) ==
  current_usage * Len(historical_usage) > 3 * SumSeq(historical_usage)

\* _check_abnormal_patterns: the GET of the window, the comparison and, when
\* it holds, _create_alert's exists test.
CheckAbnormal(w) ==
  /\ mon_pc[w] = "abnormal"
  /\ LET historical_data == redis_historical[UsageKey(mon_usage[w])]
     IN  /\ mon_hist' = [mon_hist EXCEPT ![w] = historical_data]
         /\ IF /\ historical_data # Nil
               /\ ExceedsAverage(mon_new[w], LoadsList(historical_data))
               /\ AlertKey(mon_usage[w].user_id, "abnormal") \notin redis_alert
            THEN /\ mon_pc' = [mon_pc EXCEPT ![w] = "alert_row"]
                 /\ mon_rule' = mon_rule
            ELSE AfterRule(w)
  /\ UNCHANGED << redis_usage, redis_alert, redis_historical, db_requests, db_alerts,
                  mon_usage, mon_current, mon_new, mon_started >>
  /\ UNCHANGED << routerVars, ledgerVars, apiVars, detectVars, faultVars >>

\* Mutant of LastEntries: the list is cut at its end, so the newest values
\* are the ones dropped.
LastEntries_Oldest(s, n) == IF Len(s) > n THEN SubSeq(s, 1, n) ELSE s

\* historical_usage[-24:]
LastEntries(s, n) == IF Len(s) > n THEN SubSeq(s, Len(s) - n + 1, Len(s)) ELSE s

\* _check_abnormal_patterns: append to the window read above, trim, setex.
UpdateHistorical(w) ==
  /\ mon_pc[w] = "historical"
  /\ LET historical_usage == IF mon_hist[w] # Nil THEN LoadsList(mon_hist[w]) ELSE << >>
     IN  redis_historical' =
           [redis_historical EXCEPT ![UsageKey(mon_usage[w])] =
              JsonList(LastEntries(Append(historical_usage, mon_new[w]), HistoryLength))]
  /\ mon_pc' = [mon_pc EXCEPT ![w] = "idle"]
  /\ UNCHANGED << redis_usage, redis_alert, db_requests, db_alerts,
                  mon_usage, mon_current, mon_new, mon_rule, mon_hist, mon_started >>
  /\ UNCHANGED << routerVars, ledgerVars, apiVars, detectVars, faultVars >>

(***************************************************************************)
(* submit_prompt: the route that runs process_request and records usage.   *)
(***************************************************************************)

\* Positional parameters of UsageMonitor.record_usage (besides self) and the
\* positional arguments submit_prompt calls it with.
RecordUsageParameters == << "usage" >>
RecordUsageArguments == << "response", "current_user" >>

\* Python binds positional arguments to parameters without defaults only
\* when the numbers agree; otherwise the call raises TypeError at the call
\* site, before the callee's body (and its try) is entered.
CallBinds(arguments, parameters) == Len(arguments) = Len(parameters)

\* submit_prompt up to "await model_manager.process_request(prompt_request)":
\* the PromptRequest always carries an id of its own.
SubmitPrompt(req, caps) ==
  /\ http_status = "none"
  /\ req.id # ""
  /\ ProcessRequest(req, caps)

\* submit_prompt after process_request returned: the two record_usage calls
\* and the PromptResponseModel.  Both record_usage bodies swallow their own
\* exceptions; the TypeError of a call that does not bind is caught by
\* "except Exception" and becomes HTTP 500.
SubmitPromptRecords ==
  /\ pc = "returned"
  /\ http_status = "none"
  /\ http_status' = IF CallBinds(RecordUsageArguments, RecordUsageParameters)
                    THEN "200"
                    ELSE "500"
  /\ UNCHANGED << routerVars, ledgerVars, monitorVars, detectVars, faultVars >>

\* submit_prompt after process_request raised its ValueError: both messages
\* are mapped to HTTP 503.
SubmitPromptRejects ==
  /\ pc = "raised"
  /\ http_status = "none"
  /\ http_status' = IF raised.kind \in {"NoSuitableModel", "AllModelsFailed"}
                    THEN "503"
                    ELSE "500"
  /\ UNCHANGED << routerVars, ledgerVars, monitorVars, detectVars, faultVars >>

(***************************************************************************)
(* ModelManager.detect_capabilities: keyword scoring of the prompt text.   *)
(***************************************************************************)

\* str.lower() of one character.
LowerChar(c) ==
  CASE c = "A" -> "a" [] c = "B" -> "b" [] c = "C" -> "c" [] c = "D" -> "d" [] c = "E" -> "e"
    [] c = "F" -> "f" [] c = "G" -> "g" [] c = "H" -> "h" [] c = "I" -> "i" [] c = "J" -> "j"
    [] c = "K" -> "k" [] c = "L" -> "l" [] c = "M" -> "m" [] c = "N" -> "n" [] c = "O" -> "o"
    [] c = "P" -> "p" [] c = "Q" -> "q" [] c = "R" -> "r" [] c = "S" -> "s" [] c = "T" -> "t"
    [] c = "U" -> "u" [] c = "V" -> "v" [] c = "W" -> "w" [] c = "X" -> "x" [] c = "Y" -> "y"
    [] c = "Z" -> "z" [] OTHER -> c

\* Mutant of Lower: the prompt is matched as written.
Lower_Identity(s) == s

\* prompt.lower()
RECURSIVE Lower(_)
Lower(s) ==
  IF Len(s) = 0 THEN ""
  ELSE LowerChar(SubSeq(s, 1, 1)) \o Lower(SubSeq(s, 2, Len(s)))

\* "keyword in prompt_lower": substring containment.
Contains(text, keyword) ==
  \E i \in 1..(Len(text) - Len(keyword) + 1) : SubSeq(text, i, i + Len(keyword) - 1) = keyword

\* any(indicator in prompt_lower for indicator in indicators)
AnyIn(indicators, text) == \E i \in 1..Len(indicators) : Contains(text, indicators[i])

\* The keys of task_patterns, in insertion order.
TaskOrder ==
  << "coding", "conversation", "document_analysis",
     "visual_analysis", "mathematical_reasoning", "creative_writing",
     "logical_reasoning", "business_analysis", "educational_content" >>

\* task_patterns[task]['keywords'] (a list: 'screenshot' is listed twice)
TaskKeywords(task) ==
  CASE task = "coding" ->
         << "code", "program", "function", "class", "debug", "algorithm", "api", "database",
            "python", "javascript", "java", "html", "css", "sql", "typescript", "rust", "c++",
            "compile", "syntax", "error", "bug", "fix", "implement", "develop", "build",
            "deploy", "test", "unit test", "integration", "framework", "library", "package",
            "repository", "git", "version control", "refactor", "optimize" >>
    [] task = "conversation" ->
         << "chat", "conversation", "talk", "discuss", "converse", "dialogue", "casual",
            "informal", "friendly", "helpful", "assistant", "chatbot", "natural", "human-like",
            "personality", "tone", "style" >>
    [] task = "document_analysis" ->
         << "document", "pdf", "text", "extract", "parse", "analyze", "summarize", "outline",
            "structure", "organize", "categorize", "classify", "research", "paper", "article",
            "report", "review", "synthesis", "long", "extensive", "comprehensive", "detailed",
            "thorough" >>
    [] task = "visual_analysis" ->
         << "image", "picture", "photo", "visual", "chart", "graph", "diagram", "plot", "figure",
            "illustration", "drawing", "sketch", "design", "layout", "ui", "ux", "interface",
            "screenshot", "screenshot", "multimodal", "vision", "optical", "recognition",
            "detect", "identify", "describe", "caption", "annotate" >>
    [] task = "mathematical_reasoning" ->
         << "math", "mathematical", "calculation", "equation", "formula", "solve", "compute",
            "calculate", "statistics", "probability", "algebra", "calculus", "geometry",
            "trigonometry", "arithmetic", "number", "numeric", "quantitative", "analysis",
            "modeling", "prediction", "forecast", "trend", "pattern", "correlation" >>
    [] task = "creative_writing" ->
         << "write", "create", "generate", "compose", "craft", "story", "poem", "essay",
            "article", "blog", "content", "creative", "imaginative", "fictional", "narrative",
            "descriptive", "persuasive", "informative", "entertaining", "engaging" >>
    [] task = "logical_reasoning" ->
         << "explain", "analyze", "compare", "why", "how", "reason", "logic", "think",
            "consider", "evaluate", "assess", "examine", "investigate", "deduce", "infer",
            "conclude", "argument", "premise", "conclusion", "valid", "sound", "rational",
            "systematic", "methodical" >>
    [] task = "business_analysis" ->
         << "business", "market", "strategy", "planning", "analysis", "report", "presentation",
            "proposal", "recommendation", "financial", "budget", "cost", "revenue", "profit",
            "loss", "investment", "risk", "opportunity", "competitive", "industry" >>
    [] task = "educational_content" ->
         << "teach", "learn", "education", "tutorial", "lesson", "course", "explain", "instruct",
            "guide", "help", "student", "teacher", "academic", "scholarly", "pedagogical",
            "curriculum", "syllabus", "assignment", "homework", "exam", "quiz", "assessment" >>

\* task_patterns[task]['weight']
TaskWeight(task) ==
  CASE task = "coding" -> 10
    [] task = "conversation" -> 8
    [] task = "document_analysis" -> 9
    [] task = "visual_analysis" -> 9
    [] task = "mathematical_reasoning" -> 8
    [] task = "creative_writing" -> 7
    [] task = "logical_reasoning" -> 8
    [] task = "business_analysis" -> 7
    [] task = "educational_content" -> 7

LengthOrder == << "long", "medium", "short" >>

\* length_indicators
LengthIndicators(length) ==
  CASE length = "long" ->
         << "long", "extensive", "comprehensive", "detailed", "thorough", "200k", "large",
            "full" >>
    [] length = "medium" ->
         << "moderate", "standard", "normal", "typical", "average" >>
    [] length = "short" ->
         << "brief", "concise", "quick", "short", "summary", "outline" >>

ComplexityOrder == << "complex", "moderate", "simple" >>

\* complexity_indicators
ComplexityIndicators(complexity) ==
  CASE complexity = "complex" ->
         << "complex", "advanced", "sophisticated", "intricate", "detailed", "comprehensive" >>
    [] complexity = "moderate" ->
         << "moderate", "intermediate", "standard", "normal" >>
    [] complexity = "simple" ->
         << "simple", "basic", "elementary", "straightforward", "quick" >>

DomainOrder == << "legal", "medical", "financial", "scientific", "technical" >>

\* domain_indicators
DomainIndicators(domain) ==
  CASE domain = "legal" ->
         << "legal", "law", "contract", "compliance", "regulation", "policy" >>
    [] domain = "medical" ->
         << "medical", "health", "clinical", "diagnosis", "treatment", "patient" >>
    [] domain = "financial" ->
         << "financial", "banking", "investment", "trading", "accounting" >>
    [] domain = "scientific" ->
         << "scientific", "research", "experiment", "hypothesis", "methodology" >>
    [] domain = "technical" ->
         << "technical", "engineering", "architecture", "system", "infrastructure" >>

\* The words of the five independent requirement checks, in their order.
RequirementOrder ==
  << "open_source", "safety_focused", "google_ecosystem", "multimodal", "conversational" >>

RequirementWords(requirement) ==
  CASE requirement = "open_source"      -> << "free", "open source", "transparent" >>
    [] requirement = "safety_focused"   -> << "safe", "ethical", "responsible", "aligned" >>
    [] requirement = "google_ecosystem" -> << "google", "gmail", "docs", "sheets", "colab" >>
    [] requirement = "multimodal"       -> << "multimodal", "vision", "image", "visual" >>
    [] requirement = "conversational"   -> << "conversation", "chat", "natural" >>

\* The number of entries of the keyword list found in the text.
MatchCount(keywords, text) ==
  Cardinality({ i \in 1..Len(keywords) : Contains(text, keywords[i]) })

\* detect_capabilities: the score of one task type ("score += weight" per hit).
TaskScore(task, text) == TaskWeight(task) * MatchCount(TaskKeywords(task), text)

\* The keys of task_scores (the tasks with score > 0), in insertion order.
ScoredTasks(text) == SelectSeq(TaskOrder, LAMBDA task : TaskScore(task, text) > 0)

\* Mutant of InsertByTaskScore: a task passes the tasks of equal score, so
\* ties come out in reverse of the insertion order.
RECURSIVE InsertByTaskScore_TiesReversed(_, _, _)
InsertByTaskScore_TiesReversed(task, s, text) ==
  IF s = << >> THEN << task >>
  ELSE IF TaskScore(Head(s), text) > TaskScore(task, text)
       THEN << Head(s) >> \o InsertByTaskScore_TiesReversed(task, Tail(s), text)
       ELSE << task >> \o s

\* sorted(task_scores.items(), key=lambda x: x[1], reverse=True): stable, descending.
RECURSIVE InsertByTaskScore(_, _, _)
InsertByTaskScore(task, s, text) ==
  IF s = << >> THEN << task >>
  ELSE IF TaskScore(Head(s), text) >= TaskScore(task, text)
       THEN << Head(s) >> \o InsertByTaskScore(task, Tail(s), text)
       ELSE << task >> \o s

RECURSIVE SortByTaskScore(_, _)
SortByTaskScore(s, text) ==
  IF s = << >> THEN << >>
  ELSE InsertByTaskScore(s[Len(s)], SortByTaskScore(SubSeq(s, 1, Len(s) - 1), text), text)

SortedTasks(text) == SortByTaskScore(ScoredTasks(text), text)

\* sorted_tasks[1:3], filtered by "score > 5".
SecondaryTasks(sorted_tasks, text) ==
  SelectSeq(SubSeq(sorted_tasks, 2, IF Len(sorted_tasks) < 3 THEN Len(sorted_tasks) ELSE 3),
            LAMBDA task : TaskScore(task, text) > 5)

\* "for key, indicators in d.items(): if any(...): value = key; break"
\* (indicators[i] is the word list of the key order[i]).
FirstMatch(order, indicators, text, default) ==
  LET hits == { i \in 1..Len(order) : AnyIn(indicators[i], text) }
  IN  IF hits = {} THEN default
      ELSE order[CHOOSE i \in hits : \A j \in hits : i <= j]

\* The specific_requirements list: one append per check that matches.
SpecificRequirements(text) ==
  SelectSeq(RequirementOrder, LAMBDA requirement : AnyIn(RequirementWords(requirement), text))

\* Mutant of PrimaryTask: the default of the end of detect_capabilities is missing.
PrimaryTask_NoDefault(sorted_tasks) ==
  IF sorted_tasks # << >> THEN sorted_tasks[1] ELSE "None"

\* capabilities['primary_task']: the top task, or the text_generation default.
PrimaryTask(sorted_tasks) ==
  IF sorted_tasks # << >> THEN sorted_tasks[1] ELSE "text_generation"

\* ModelManager.detect_capabilities
DetectCapabilities(prompt) ==
  LET prompt_lower == Lower(prompt)
      sorted_tasks == SortedTasks(prompt_lower)
  IN  [primary_task          |-> PrimaryTask(sorted_tasks),
       secondary_tasks       |-> SecondaryTasks(sorted_tasks, prompt_lower),
       context_length        |-> FirstMatch(LengthOrder,
                                           [i \in 1..Len(LengthOrder) |-> LengthIndicators(LengthOrder[i])],
                                           prompt_lower, "short"),
       complexity            |-> FirstMatch(ComplexityOrder,
                                           [i \in 1..Len(ComplexityOrder) |-> ComplexityIndicators(ComplexityOrder[i])],
                                           prompt_lower, "simple"),
       domain                |-> FirstMatch(DomainOrder,
                                           [i \in 1..Len(DomainOrder) |-> DomainIndicators(DomainOrder[i])],
                                           prompt_lower, "general"),
       specific_requirements |-> SpecificRequirements(prompt_lower)]

\* Words prompts are made of: coding keywords (in several spellings, some of
\* them containing a shorter keyword), keywords of other tasks, requirement
\* words, a word that matches nothing, the keyword the visual_analysis list
\* names twice, and words that match two tasks each.
DetectWords ==
  { "build", "Debug", "JavaScript", "unit test", "chat", "poem", "long", "research",
    "image", "hello", "free", "safe", "screenshot", "photo paper", "explain" }

\* Largest number of words of a prompt.
MaxWords == 2

\* " ".join(words)
RECURSIVE JoinWords(_)
JoinWords(words) ==
  IF words = << >> THEN ""
  ELSE IF Len(words) = 1 THEN words[1]
       ELSE words[1] \o " " \o JoinWords(Tail(words))

DetectPrompts == UNION { [1..n -> DetectWords] : n \in 0..MaxWords }

\* One call detect_capabilities(prompt) on the text made of the given words.
DetectCapabilitiesCall(words) ==
  /\ detect_pc = "idle"
  /\ detect_pc' = "done"
  /\ prompt_words' = words
  /\ prompt_text' = JoinWords(words)
  /\ detected' = DetectCapabilities(JoinWords(words))
  /\ UNCHANGED << routerVars, ledgerVars, monitorVars, apiVars, faultVars >>

(***************************************************************************)
(* Specifications.                                                         *)
(***************************************************************************)

\* The state after construction, the credentials being any deployment's.
Init ==
  /\ api_keys \in { k \in [Providers -> UNION { KeyValues(p) : p \in Providers }] :
                       \A p \in Providers : k[p] \in KeyValues(p) }
  /\ submitted = NoRequest
  /\ request = NoRequest
  /\ capabilities = NoProfile
  /\ pc = "idle"
  /\ calls = << >>
  /\ fallback_models = << >>
  /\ idx = 0
  /\ last_error = "none"
  /\ response = NoResponse
  /\ raised = NoError
  /\ uuids = 0
  /\ current_month = 1
  /\ redis_monthly = [k \in MonthlyKeys |-> Nil]
  /\ constructed = {}
  /\ monthly_usage = [i \in Instances |-> [p \in {} |-> ZeroUsage]]
  /\ ledger_pc = [i \in Instances |-> "idle"]
  /\ ledger_call = [i \in Instances |-> MonthlyKey("openai", 1)]
  /\ recorded = [k \in MonthlyKeys |-> ZeroUsage]
  /\ redis_usage = [k \in UsageKeys |-> Nil]
  /\ redis_alert = {}
  /\ redis_historical = [k \in UsageKeys |-> Nil]
  /\ db_requests = << >>
  /\ db_alerts = << >>
  /\ mon_pc = [w \in Workers |-> "idle"]
  /\ mon_usage = [w \in Workers |-> [user_id |-> "1", model_id |-> "openai-gpt-4", tokens_used |-> 0]]
  /\ mon_current = [w \in Workers |-> 0]
  /\ mon_new = [w \in Workers |-> 0]
  /\ mon_rule = [w \in Workers |-> "spike"]
  /\ mon_hist = [w \in Workers |-> Nil]
  /\ mon_started = 0
  /\ http_status = "none"
  /\ detect_pc = "idle"
  /\ prompt_words = << >>
  /\ prompt_text = ""
  /\ detected = NoCapabilities
  /\ alert_failures = {}

\* The same with the router left aside (no credentials, no request).
InitServices ==
  /\ api_keys = [p \in Providers |-> ""]
  /\ submitted = NoRequest
  /\ request = NoRequest
  /\ capabilities = NoProfile
  /\ pc = "idle"
  /\ calls = << >>
  /\ fallback_models = << >>
  /\ idx = 0
  /\ last_error = "none"
  /\ response = NoResponse
  /\ raised = NoError
  /\ uuids = 0
  /\ current_month = 1
  /\ redis_monthly = [k \in MonthlyKeys |-> Nil]
  /\ constructed = {}
  /\ monthly_usage = [i \in Instances |-> [p \in {} |-> ZeroUsage]]
  /\ ledger_pc = [i \in Instances |-> "idle"]
  /\ ledger_call = [i \in Instances |-> MonthlyKey("openai", 1)]
  /\ recorded = [k \in MonthlyKeys |-> ZeroUsage]
  /\ redis_usage = [k \in UsageKeys |-> Nil]
  /\ redis_alert = {}
  /\ redis_historical = [k \in UsageKeys |-> Nil]
  /\ db_requests = << >>
  /\ db_alerts = << >>
  /\ mon_pc = [w \in Workers |-> "idle"]
  /\ mon_usage = [w \in Workers |-> [user_id |-> "1", model_id |-> "openai-gpt-4", tokens_used |-> 0]]
  /\ mon_current = [w \in Workers |-> 0]
  /\ mon_new = [w \in Workers |-> 0]
  /\ mon_rule = [w \in Workers |-> "spike"]
  /\ mon_hist = [w \in Workers |-> Nil]
  /\ mon_started = 0
  /\ http_status = "none"
  /\ detect_pc = "idle"
  /\ prompt_words = << >>
  /\ prompt_text = ""
  /\ detected = NoCapabilities
  /\ alert_failures = {}

\* Windows left in Redis by earlier hours (the key lives 24 hours, the hourly
\* counters and the cooldown keys one hour): one value per hour, oldest first.
StoredKey == << "1", "openai-gpt-4" >>
StoredLengths == {HistoryLength - 2, HistoryLength - 1, HistoryLength}
StoredWindow(n) == [i \in 1..n |-> 100 * i + 50]

\* The monitor at the start of an hour, after hours with usage: the window of
\* one (user, provider) is nearly or entirely full, the hourly counters and
\* the cooldown keys have expired.
InitHistory ==
  /\ api_keys = [p \in Providers |-> ""]
  /\ submitted = NoRequest
  /\ request = NoRequest
  /\ capabilities = NoProfile
  /\ pc = "idle"
  /\ calls = << >>
  /\ fallback_models = << >>
  /\ idx = 0
  /\ last_error = "none"
  /\ response = NoResponse
  /\ raised = NoError
  /\ uuids = 0
  /\ current_month = 1
  /\ redis_monthly = [k \in MonthlyKeys |-> Nil]
  /\ constructed = {}
  /\ monthly_usage = [i \in Instances |-> [p \in {} |-> ZeroUsage]]
  /\ ledger_pc = [i \in Instances |-> "idle"]
  /\ ledger_call = [i \in Instances |-> MonthlyKey("openai", 1)]
  /\ recorded = [k \in MonthlyKeys |-> ZeroUsage]
  /\ redis_usage = [k \in UsageKeys |-> Nil]
  /\ redis_alert = {}
  /\ redis_historical \in
       { [k \in UsageKeys |->
             IF k = StoredKey THEN JsonList(StoredWindow(n)) ELSE Nil] : n \in StoredLengths }
  /\ db_requests = << >>
  /\ db_alerts = << >>
  /\ mon_pc = [w \in Workers |-> "idle"]
  /\ mon_usage = [w \in Workers |-> [user_id |-> "1", model_id |-> "openai-gpt-4", tokens_used |-> 0]]
  /\ mon_current = [w \in Workers |-> 0]
  /\ mon_new = [w \in Workers |-> 0]
  /\ mon_rule = [w \in Workers |-> "spike"]
  /\ mon_hist = [w \in Workers |-> Nil]
  /\ mon_started = 0
  /\ http_status = "none"
  /\ detect_pc = "idle"
  /\ prompt_words = << >>
  /\ prompt_text = ""
  /\ detected = NoCapabilities
  /\ alert_failures = {}

\* The router alone: one request from submission to its outcome.
NextRouter ==
  \/ \E req \in Requests, caps \in Profiles : ProcessRequest(req, caps)
  \/ \E ok \in BOOLEAN : PreferredReturns(ok)
  \/ \E ok \in BOOLEAN : FallbackReturns(ok)

\* The ledger alone: processes start and record usage concurrently.
NextLedger ==
  \/ \E i \in Instances : Construct(i)
  \/ \E i \in Instances, p \in LedgerProviders, t \in UsageTokens, c \in UsageCosts :
        RecordUsageUpdate(i, p, t, c)
  \/ \E i \in Instances : RecordUsageStore(i)

\* The ledger of one process that serves the providers with a free tier.
NextLedgerRanking ==
  \/ Construct(1)
  \/ \E p \in FreeTierProviders, t \in UsageTokens, c \in UsageCosts :
        RecordUsageUpdate(1, p, t, c)
  \/ RecordUsageStore(1)

\* The ledger of long-lived processes, across the change of the month.
NextLedgerMonths ==
  \/ \E i \in Instances : Construct(i)
  \/ \E i \in Instances, p \in LedgerProviders, t \in UsageTokens, c \in UsageCosts :
        RecordUsageUpdate(i, p, t, c)
  \/ \E i \in Instances : RecordUsageStore(i)
  \/ MonthChanges

\* The monitor with concurrent record_usage calls.
NextMonitor ==
  \/ \E w \in Workers, usage \in TokenUsages : RecordUsageGet(w, usage)
  \/ \E w \in Workers : RecordUsageSetex(w)
  \/ \E w \in Workers : RecordUsagePersist(w)
  \/ \E w \in Workers : CheckThreshold(w)
  \/ \E w \in Workers : CreateAlertRow(w)
  \/ \E w \in Workers : CreateAlertCooldown(w)
  \/ \E w \in Workers : CheckAbnormal(w)
  \/ \E w \in Workers : UpdateHistorical(w)

\* The monitor with one call at a time.
NextMonitorSeq ==
  \/ \E usage \in TokenUsages : RecordUsageGet(1, usage)
  \/ RecordUsageSetex(1)
  \/ RecordUsagePersist(1)
  \/ CheckThreshold(1)
  \/ CreateAlertRow(1)
  \/ CreateAlertCooldown(1)
  \/ CheckAbnormal(1)
  \/ UpdateHistorical(1)

\* The monitor with one call at a time, of a user with an integer id and of
\* one whose id is not an integer.
NextMonitorOthers ==
  \/ \E usage \in [user_id : {"1"} \cup OtherUsers, model_id : MonitorModels,
                    tokens_used : MonitorTokens] : RecordUsageGet(1, usage)
  \/ RecordUsageSetex(1)
  \/ RecordUsagePersist(1)
  \/ CheckThreshold(1)
  \/ CreateAlertRow(1)
  \/ CreateAlertCooldown(1)
  \/ CheckAbnormal(1)
  \/ UpdateHistorical(1)

\* The monitor with one call at a time, of one user on one provider, over
\* hours: cooldown keys expire, the hour changes, the commit of an alert row
\* may raise.
NextMonitorExpiry ==
  \/ \E usage \in { u \in TokenUsages : /\ u.user_id = "1" /\ u.model_id = "openai-gpt-4"
                                        /\ u.tokens_used \in {600, 10500} } :
        RecordUsageGet(1, usage)
  \/ RecordUsageSetex(1)
  \/ RecordUsagePersist(1)
  \/ CheckThreshold(1)
  \/ CreateAlertRow(1)
  \/ CreateAlertRowFails(1)
  \/ CreateAlertCooldown(1)
  \/ CheckAbnormal(1)
  \/ UpdateHistorical(1)
  \/ \E type \in AlertTypes : AlertKeyExpires("1", type)
  \/ HourChanges

\* The route: one request from submission to the HTTP outcome.
NextApi ==
  \/ \E req \in Requests, caps \in Profiles : SubmitPrompt(req, caps)
  \/ \E ok \in BOOLEAN : PreferredReturns(ok)
  \/ \E ok \in BOOLEAN : FallbackReturns(ok)
  \/ SubmitPromptRecords
  \/ SubmitPromptRejects

\* Capability detection alone, over the prompts of DetectPrompts.
NextDetect == \E words \in DetectPrompts : DetectCapabilitiesCall(words)

\* The monitor with one call at a time, of one user, and alert creations
\* that may fail.
NextMonitorFaults ==
  \/ \E usage \in { u \in TokenUsages : u.user_id = "1" } : RecordUsageGet(1, usage)
  \/ RecordUsageSetex(1)
  \/ RecordUsagePersist(1)
  \/ CheckThreshold(1)
  \/ CreateAlertRow(1)
  \/ CreateAlertRowFails(1)
  \/ CreateAlertCooldown(1)
  \/ CreateAlertCooldownFails(1)
  \/ CheckAbnormal(1)
  \/ UpdateHistorical(1)

Spec == Init /\ [][NextRouter]_vars

SpecMonitorFaults == InitServices /\ [][NextMonitorFaults]_vars

SpecDetect == InitServices /\ [][NextDetect]_vars

SpecApi == Init /\ [][NextApi]_vars

SpecLedger == InitServices /\ [][NextLedger]_vars

SpecLedgerRanking == InitServices /\ [][NextLedgerRanking]_vars

SpecLedgerMonths == InitServices /\ [][NextLedgerMonths]_vars

SpecMonitor == InitServices /\ [][NextMonitor]_vars

SpecMonitorSeq == InitServices /\ [][NextMonitorSeq]_vars

SpecMonitorExpiry == InitServices /\ [][NextMonitorExpiry]_vars

SpecMonitorOthers == InitServices /\ [][NextMonitorOthers]_vars

SpecMonitorHistory == InitHistory /\ [][NextMonitorSeq]_vars

(***************************************************************************)
(* Properties of the router.                                               *)
(***************************************************************************)

Terminal == pc \in {"returned", "raised"}

NoneEligible == \A m \in ModelIds : ~ Eligible(m, request)

AllCallsFailed == \A i \in 1..Len(calls) : calls[i].status = "failed"

\* C1: whenever process_request returns a response, the provider that
\* produced it is eligible for the request: valid-looking credential and
\* its own token estimate of the prompt within its max_tokens.
C1_ResponseFromEligibleProvider ==
  pc = "returned" => Eligible(response.model_used, request)

\* C2: when no provider is eligible, process_request fails with the
\* no-provider error and no generate_response call is made at any point,
\* whatever the model_preference.
C2_NoEligibleNoCall ==
  (pc # "idle" /\ NoneEligible) =>
     /\ calls = << >>
     /\ pc = "raised"
     /\ raised.kind = "NoSuitableModel"

\* C3: when at least one call was attempted and every attempted call raised,
\* process_request fails with the all-failed error, which carries the error
\* of the most recently attempted call.
C3_AllFailedCarriesLastError ==
  (Terminal /\ calls # << >> /\ AllCallsFailed) =>
     /\ pc = "raised"
     /\ raised.kind = "AllModelsFailed"
     /\ raised.last = calls[Len(calls)].error

\* C4: no generate_response call for a request happens after a successful
\* one: a success is the last call of the log and the request has returned.
C4_NoCallAfterSuccess ==
  \A i \in 1..Len(calls) :
     calls[i].status = "ok" => (i = Len(calls) /\ pc = "returned")

\* C4 witness: a fallback candidate succeeded while candidates were left untried.
C4_Witness ==
  /\ pc = "returned"
  /\ calls[Len(calls)].status = "ok"
  /\ idx >= 1
  /\ idx < Len(fallback_models)

\* The preference names a configured model that is eligible for the request.
PreferenceEligible ==
  /\ request.model_preference \in ModelIds
  /\ Eligible(request.model_preference, request)

\* C5: an eligible preferred model is the first one called; if that call
\* succeeds the response's model_used is the preference, and if it fails
\* process_request does not raise there but calls the first scored fallback
\* candidate.
C5_PreferredFirstThenFallback ==
  (pc # "idle" /\ PreferenceEligible) =>
     /\ calls # << >>
     /\ calls[1].model = request.model_preference
     /\ calls[1].status = "ok" =>
          (pc = "returned" /\ response.model_used = request.model_preference)
     /\ calls[1].status = "failed" =>
          /\ Len(calls) >= 2
          /\ fallback_models # << >>
          /\ calls[2].model = fallback_models[1]

\* C5 witness: the eligible preferred model failed and a fallback candidate
\* other than it answered.
C5_Witness ==
  /\ PreferenceEligible
  /\ pc = "returned"
  /\ Len(calls) >= 2
  /\ calls[1].status = "failed"
  /\ response.model_used # request.model_preference

\* C6: every returned response carries the request's id as request_id: the
\* caller's id, or the id assigned on entry when the caller gave none.
C6_ResponseCarriesRequestId ==
  pc = "returned" =>
     /\ response.request_id = request.id
     /\ response.request_id # ""
     /\ submitted.id # "" => response.request_id = submitted.id
     /\ submitted.id = "" => response.request_id = Uuid(1)

\* C6 witness: a request without id answered by a later provider of the chain.
C6_Witness ==
  /\ pc = "returned"
  /\ submitted.id = ""
  /\ Len(calls) >= 2
  /\ response.request_id = Uuid(1)

\* C17: a request that asks for a specific model id that is not a configured
\* model is rejected with an error: no provider is called for it and no
\* response of another model is returned.
C17_UnknownModelRejected ==
  (pc # "idle" /\ RequestsSpecificModel(request) /\ request.model_preference \notin ModelIds) =>
     /\ calls = << >>
     /\ pc = "raised"

\* process_request has computed the fallback list.
FallbackEntered == pc \in {"fallback", "raised"} \/ (pc = "returned" /\ idx >= 1)

\* Position of a configured model in the enumeration of self.models.
PositionOf(m) == CHOOSE i \in 1..Len(ModelOrder) : ModelOrder[i] = m

\* C18: the fallback list holds exactly the eligible models, in
\* non-increasing order of calculate_model_score for the request's profile,
\* equal scores in enumeration order; the fallback phase calls them in the
\* order of the list.
C18_FallbackOrder ==
  FallbackEntered =>
     LET fm    == fallback_models
         score == [m \in ModelIds |-> CalculateModelScore(m, capabilities)]
         first == Len(calls) - idx
     IN  /\ \A i \in 1..Len(fm), j \in 1..Len(fm) :
               i < j => /\ score[fm[i]] >= score[fm[j]]
                        /\ score[fm[i]] = score[fm[j]] => PositionOf(fm[i]) < PositionOf(fm[j])
         /\ { fm[i] : i \in 1..Len(fm) } = { m \in ModelIds : Eligible(m, request) }
         /\ Len(fm) = Cardinality({ m \in ModelIds : Eligible(m, request) })
         /\ first \in {0, 1}
         /\ \A i \in 1..idx : calls[first + i].model = fm[i]

\* C18 witness: a list of at least three models with two of equal score, of
\* which two have failed and the third is being called.
C18_Witness ==
  /\ pc = "fallback"
  /\ idx = 3
  /\ \E i \in 1..(Len(fallback_models) - 1) :
        CalculateModelScore(fallback_models[i], capabilities) =
           CalculateModelScore(fallback_models[i + 1], capabilities)
  /\ calls[Len(calls)].model = fallback_models[3]

\* C19 (its bound): the generate_response calls issued for one request are
\* at most as many as the providers eligible for it, and no provider is
\* called twice.  Stated for the requests whose preferred attempt, if any,
\* goes to an eligible model.
C19_CallsBoundedByEligible ==
  (pc # "idle" /\ (TriesPreferred(request) => PreferenceEligible)) =>
     /\ Len(calls) <= Cardinality({ m \in ModelIds : Eligible(m, request) })
     /\ \A i \in 1..Len(calls), j \in 1..Len(calls) :
           calls[i].model = calls[j].model => i = j

(***************************************************************************)
(* Properties of the ledger.                                               *)
(***************************************************************************)

UsageEvents == UsageTokens \X UsageCosts

\* C7: record_usage is additive and commutative: from the counters of any
\* provider, two usage events recorded in either order leave the same
\* counters, tokens_used and requests being the old values plus the sums.
C7_RecordUsageCommutes ==
  \A i \in constructed, p \in LedgerProviders, e1 \in UsageEvents, e2 \in UsageEvents :
     LET old == UsageOf(monthly_usage[i], p)
         a   == AddUsage(AddUsage(old, e1[1], e1[2]), e2[1], e2[2])
         b   == AddUsage(AddUsage(old, e2[1], e2[2]), e1[1], e1[2])
     IN  /\ a = b
         /\ a.tokens_used = old.tokens_used + e1[1] + e2[1]
         /\ a.requests = old.requests + 2

StoredUsage(p) ==
  LET usage_data == redis_monthly[MonthlyKey(p, current_month)]
  IN  IF usage_data # Nil THEN JsonLoads(usage_data) ELSE ZeroUsage

LedgerQuiet == \A i \in Instances : ledger_pc[i] = "idle"

\* C8: under any interleaving of record_usage calls, also from separate
\* instances sharing the store, no update is lost: once all calls have
\* finished the stored monthly record holds the sums over all calls.
C8_NoLostUpdate ==
  LedgerQuiet =>
     \A p \in LedgerProviders : StoredUsage(p) = recorded[MonthlyKey(p, current_month)]

\* C13: monthly counters do not carry over: after the month has changed, the
\* first record_usage(provider, t, c) of the new month leaves the new month's
\* record at exactly tokens_used = t, cost = c, requests = 1 (what the
\* history of that month alone holds), whatever the previous month recorded.
C13_NoCarryOver ==
  \A p \in LedgerProviders :
     (current_month > 1 /\ LedgerQuiet /\ recorded[MonthlyKey(p, current_month)].requests = 1) =>
        StoredUsage(p) = recorded[MonthlyKey(p, current_month)]

(***************************************************************************)
(* Properties of the usage monitor.                                        *)
(***************************************************************************)

RECURSIVE SumTokens(_)
SumTokens(rows) == IF rows = << >> THEN 0 ELSE Head(rows).tokens_used + SumTokens(Tail(rows))

RequestsOf(u, m) ==
  SelectSeq(db_requests, LAMBDA r : r.user_id = IntOfUserId(u) /\ r.model_used = m)

StoredCounter(u, m) ==
  IF redis_usage[<< u, m >>] # Nil THEN ParseInt(redis_usage[<< u, m >>]) ELSE 0

MonitorQuiet == \A w \in Workers : mon_pc[w] = "idle"

\* C9: the hourly counter is incremented atomically: after all concurrent
\* record_usage calls have finished it equals the sum of their tokens_used
\* (so that every call's rules saw every increment completed before it).
C9_AtomicHourlyCounter ==
  MonitorQuiet =>
     \A u \in Users, m \in MonitorModels : StoredCounter(u, m) = SumTokens(RequestsOf(u, m))

\* The first cumulative total above the spike threshold in a sequence of
\* request rows, 0 when the totals stay within it.
RECURSIVE FirstCrossing(_, _)
FirstCrossing(rows, total) ==
  IF rows = << >> THEN 0
  ELSE IF total + Head(rows).tokens_used > spike_threshold
       THEN total + Head(rows).tokens_used
       ELSE FirstCrossing(Tail(rows), total + Head(rows).tokens_used)

SpikeAlertsOf(u) ==
  SelectSeq(db_alerts, LAMBDA a : a.alert_type = "spike" /\ a.user_id = IntOfUserId(u))

\* All usage of user u so far is on provider-model m.
OnlyProvider(u, m) ==
  \A i \in 1..Len(db_requests) :
     db_requests[i].user_id = IntOfUserId(u) => db_requests[i].model_used = m

\* C10: for a sequence of record_usage calls of one (user, provider) in one
\* hour and cooldown window: no spike alert while the cumulative total is
\* <= spike_threshold, exactly one created by the first call whose total
\* exceeds it, none by later calls.
C10_OneSpikeAlertAtFirstCrossing ==
  \A u \in Users, m \in MonitorModels :
     OnlyProvider(u, m) =>
        LET crossing == FirstCrossing(RequestsOf(u, m), 0)
            alerts   == SpikeAlertsOf(u)
        IN  /\ Len(alerts) <= 1
            /\ crossing = 0 => alerts = << >>
            /\ alerts # << >> => alerts[1].usage = crossing
            /\ (crossing > 0 /\ mon_pc[1] = "idle") => Len(alerts) = 1

\* C10 witness: three calls of one (user, provider): within the threshold,
\* crossing it, and one more after the alert.
C10_Witness ==
  \E u \in Users, m \in MonitorModels :
     /\ OnlyProvider(u, m)
     /\ mon_pc[1] = "idle"
     /\ Len(RequestsOf(u, m)) = 3
     /\ FirstCrossing(RequestsOf(u, m), 0) =
           RequestsOf(u, m)[1].tokens_used + RequestsOf(u, m)[2].tokens_used
     /\ Len(SpikeAlertsOf(u)) = 1
     /\ StoredCounter(u, m) > SpikeAlertsOf(u)[1].usage

\* The usage_alerts rows of user u and alert type t.
AlertsOf(u, t) ==
  SelectSeq(db_alerts, LAMBDA a : a.alert_type = t /\ a.user_id = IntOfUserId(u))

\* C11: under any interleaving of concurrent record_usage calls, at most one
\* alert of a given (user, type) is persisted within one cooldown window (no
\* cooldown key expires in these behaviours, so every behaviour is one window).
C11_OneAlertPerCooldownWindow ==
  \A u \in Users, t \in AlertTypes : Len(AlertsOf(u, t)) <= 1

\* The thresholds as configured, by rule.
ThresholdOf(t) == IF t = "fraud" THEN 10000 ELSE 1000

\* Worker w has started a record_usage call (tokens_used is positive).
Called(w) == mon_usage[w].tokens_used > 0

\* The worker's call is past rule t: t = "spike" once the fraud rule is
\* reached, t = "fraud" once the abnormal-pattern rule is reached.
RuleDone(w, t) ==
  /\ Called(w)
  /\ mon_pc[w] \notin {"setex", "persist"}
  /\ mon_rule[w] \in (IF t = "spike" THEN {"fraud", "abnormal"} ELSE {"abnormal"})

\* The call's alert of type t was created, or its creation raised, or it was
\* suppressed by the cooldown key of an alert of that user and type.
AlertHandled(w, t) ==
  LET u     == mon_usage[w].user_id
      total == mon_new[w]
  IN  \/ \E i \in 1..Len(db_alerts) :
            db_alerts[i] = [user_id |-> IntOfUserId(u), alert_type |-> t,
                            severity |-> IF t = "fraud" THEN "high" ELSE "medium",
                            usage |-> total]
      \/ << u, t, total >> \in alert_failures
      \/ /\ AlertKey(u, t) \in redis_alert
         /\ AlertsOf(u, t) # << >>

\* C20: the anomaly rules are independent: a call whose total exceeds a
\* threshold gets that rule's alert (spike medium, fraud high) unless the
\* type is in cooldown or the creation failed, whatever happened to the
\* alert of the other rule; and after the threshold rules the
\* abnormal-pattern rule is evaluated and the window updated.
C20_RulesIndependent ==
  \A w \in Workers :
     /\ \A t \in {"spike", "fraud"} :
           (RuleDone(w, t) /\ mon_new[w] > ThresholdOf(t)) => AlertHandled(w, t)
     /\ (Called(w) /\ mon_pc[w] \in {"historical", "idle"}
           /\ mon_hist[w] # Nil
           /\ mon_new[w] * Len(LoadsList(mon_hist[w])) > 3 * SumSeq(LoadsList(mon_hist[w])))
          => AlertHandled(w, "abnormal")
     /\ (Called(w) /\ mon_pc[w] = "idle") =>
           LET window == redis_historical[UsageKey(mon_usage[w])]
           IN  window # Nil /\ LoadsList(window)[Len(LoadsList(window))] = mon_new[w]

\* C20 witness: a finished call above both thresholds whose spike alert was
\* suppressed by the cooldown of an earlier one, whose fraud alert was
\* persisted while its cooldown key failed, and whose abnormal alert was created.
C20_Witness ==
  LET u     == mon_usage[1].user_id
      total == mon_new[1]
  IN  /\ mon_started > 0 /\ mon_pc[1] = "idle"
      /\ total > fraud_threshold
      /\ AlertKey(u, "spike") \in redis_alert
      /\ \A i \in 1..Len(AlertsOf(u, "spike")) : AlertsOf(u, "spike")[i].usage < total
      /\ \E i \in 1..Len(AlertsOf(u, "fraud")) : AlertsOf(u, "fraud")[i].usage = total
      /\ << u, "fraud", total >> \in alert_failures
      /\ \E i \in 1..Len(AlertsOf(u, "abnormal")) : AlertsOf(u, "abnormal")[i].usage = total

(***************************************************************************)
(* Properties of the route.                                                *)
(***************************************************************************)

\* C12: once a provider has returned a successful response, a failure of
\* usage recording is swallowed: submit_prompt answers with that response
\* (HTTP 200) and never with an error.
C12_RecordingFailureSwallowed ==
  (pc = "returned" /\ http_status # "none") => http_status = "200"

(***************************************************************************)
(* Properties of capability detection.                                     *)
(***************************************************************************)

\* The words of DetectWords that are keywords of the coding task (up to case).
CodingWords == { "build", "Debug", "JavaScript", "unit test" }

Range(s) == { s[i] : i \in 1..Len(s) }

\* The task keywords found in the lower-cased prompt, of whatever task.
MatchedTaskKeywords ==
  UNION { { kw \in Range(TaskKeywords(TaskOrder[t])) : Contains(Lower(prompt_text), kw) } :
          t \in 1..Len(TaskOrder) }

\* C14: a prompt whose matched task keywords all are coding keywords (at
\* least one matched) gets primary_task = coding; so does a prompt written
\* with coding keywords only, although matching is by substring and a coding
\* keyword ("build") contains a keyword of another task ("ui").
C14_CodingKeywordsGiveCoding ==
  detect_pc = "done" =>
     /\ (MatchedTaskKeywords # {} /\ MatchedTaskKeywords \subseteq Range(TaskKeywords("coding")))
           => detected.primary_task = "coding"
     /\ (prompt_words # << >> /\ Range(prompt_words) \subseteq CodingWords)
           => detected.primary_task = "coding"

\* C14 witness: a prompt of coding keywords in which a keyword of the visual
\* task matches as a substring, detected as coding.
C14_Witness ==
  /\ detect_pc = "done"
  /\ Len(prompt_words) = 2
  /\ Range(prompt_words) \subseteq CodingWords
  /\ TaskScore("visual_analysis", Lower(prompt_text)) > 0
  /\ prompt_text # Lower(prompt_text)
  /\ detected.primary_task = "coding"

NoTaskKeyword == \A t \in 1..Len(TaskOrder) : TaskScore(TaskOrder[t], Lower(prompt_text)) = 0

NoRequirementWord ==
  \A r \in 1..Len(RequirementOrder) : ~ AnyIn(RequirementWords(RequirementOrder[r]), Lower(prompt_text))

\* C15 as claimed: when no task keyword matches, primary_task is
\* text_generation and both secondary_tasks and specific_requirements are empty.
C15_NoTaskKeywordAllEmpty ==
  (detect_pc = "done" /\ NoTaskKeyword) =>
     /\ detected.primary_task = "text_generation"
     /\ detected.secondary_tasks = << >>
     /\ detected.specific_requirements = << >>

\* C15 amended: when no task keyword matches, primary_task is text_generation
\* and secondary_tasks is empty; specific_requirements is empty when in
\* addition none of the words of the requirement checks matches.
C15_NoTaskKeywordDefaults ==
  (detect_pc = "done" /\ NoTaskKeyword) =>
     /\ detected.primary_task = "text_generation"
     /\ detected.secondary_tasks = << >>
     /\ NoRequirementWord => detected.specific_requirements = << >>

\* C15 witness: a prompt without task keyword in which two requirement checks match.
C15_Witness ==
  /\ detect_pc = "done"
  /\ NoTaskKeyword
  /\ detected.primary_task = "text_generation"
  /\ Len(detected.specific_requirements) = 2

\* The profile calculate_model_score reads from the detected capabilities.
ProfileOf(caps) ==
  [primary_task |-> caps.primary_task, context_length |-> caps.context_length,
   domain |-> caps.domain, specific_requirements |-> Range(caps.specific_requirements)]

\* Values of cost_per_1k_tokens * 1000.
Costs1k == {0, 2, 15, 30}

WindowRead(w) == IF mon_hist[w] # Nil THEN LoadsList(mon_hist[w]) ELSE << >>

\* The worker's call has evaluated the abnormal-pattern rule.
AbnormalDone(w) == Called(w) /\ mon_rule[w] = "abnormal" /\ mon_pc[w] \in {"historical", "idle"}

\* The total is more than three times the average of the window.
ThreeTimesAverage(total, window) ==
  window # << >> /\ total * Len(window) > 3 * SumSeq(window)

\* C21: an abnormal alert is created (subject to the cooldown) exactly when
\* a non-empty window was stored for the (user, provider) and the call's
\* total exceeds three times the average of that window as it was before
\* the call's own total is appended; with no stored window none is created.
C21_AbnormalAgainstStoredWindow ==
  \A w \in Workers :
     LET u == mon_usage[w].user_id
     IN  /\ (mon_rule[w] = "abnormal" /\ mon_pc[w] \in {"alert_row", "alert_cooldown"})
              => ThreeTimesAverage(mon_new[w], WindowRead(w))
         /\ (mon_rule[w] = "abnormal" /\ mon_pc[w] = "alert_row")
              => AlertKey(u, "abnormal") \notin redis_alert
         /\ (AbnormalDone(w) /\ ThreeTimesAverage(mon_new[w], WindowRead(w)))
              => /\ AlertKey(u, "abnormal") \in redis_alert
                 /\ AlertsOf(u, "abnormal") # << >>
         /\ (AbnormalDone(w) /\ mon_hist[w] = Nil /\ OnlyProvider(u, mon_usage[w].model_id))
              => AlertsOf(u, "abnormal") = << >>

\* C21 witness: a finished call whose total is above three times the average
\* of the stored window and below three times the average the window has once
\* the total is appended, and whose abnormal alert was created.
C21_Witness ==
  /\ AbnormalDone(1) /\ mon_pc[1] = "idle"
  /\ ThreeTimesAverage(mon_new[1], WindowRead(1))
  /\ ~ ThreeTimesAverage(mon_new[1], Append(WindowRead(1), mon_new[1]))
  /\ \E i \in 1..Len(db_alerts) :
        db_alerts[i] = [user_id |-> IntOfUserId(mon_usage[1].user_id), alert_type |-> "abnormal",
                        severity |-> "medium", usage |-> mon_new[1]]

\* The totals the calls of (u, m) reached, in call order.
RECURSIVE RunningTotals(_, _)
RunningTotals(rows, total) ==
  IF rows = << >> THEN << >>
  ELSE << total + Head(rows).tokens_used >>
          \o RunningTotals(Tail(rows), total + Head(rows).tokens_used)

\* The stored window of (u, m), empty when the key is absent.
StoredHistory(u, m) ==
  IF redis_historical[<< u, m >>] # Nil THEN LoadsList(redis_historical[<< u, m >>]) ELSE << >>

\* window holds the last entries of appended, in order, and at most HistoryLength.
IsRecentSuffix(window, appended) ==
  /\ Len(window) = (IF Len(appended) > HistoryLength THEN HistoryLength ELSE Len(appended))
  /\ \A i \in 1..Len(window) : window[i] = appended[Len(appended) - Len(window) + i]

\* C22: after any sequence of record_usage calls the stored window has at
\* most 24 entries, and they are, in insertion order, exactly the most
\* recent values appended: the oldest are dropped first.
C22_WindowKeepsMostRecent ==
  \A u \in Users, m \in MonitorModels :
     /\ Len(StoredHistory(u, m)) <= HistoryLength
     /\ mon_pc[1] = "idle" =>
          LET totals == RunningTotals(RequestsOf(u, m), 0)
          IN  IF << u, m >> = StoredKey
              THEN \E n \in StoredLengths :
                      IsRecentSuffix(StoredHistory(u, m), StoredWindow(n) \o totals)
              ELSE IsRecentSuffix(StoredHistory(u, m), totals)

\* C22 witness: calls on a full window: it still has 24 entries, the totals
\* of the calls are its last entries and the oldest stored values are gone.
C22_Witness ==
  LET window == StoredHistory(StoredKey[1], StoredKey[2])
      totals == RunningTotals(RequestsOf(StoredKey[1], StoredKey[2]), 0)
  IN  /\ mon_pc[1] = "idle"
      /\ Len(totals) >= 2
      /\ Len(window) = HistoryLength
      /\ window[1] = StoredWindow(HistoryLength)[Len(totals) + 1]
      /\ window[HistoryLength] = totals[Len(totals)]
      /\ window[HistoryLength - 1] = totals[Len(totals) - 1]

\* C23: each entry of the window of a (user, provider) is the total of one
\* distinct hour: the window holds at most one entry per hour, several calls
\* within the same hour do not each add an entry.  (No hourly counter
\* expires in these behaviours, so all calls of a behaviour fall in one hour
\* and the window may hold at most one entry.)
C23_OneEntryPerHour ==
  \A u \in Users, m \in MonitorModels : Len(StoredHistory(u, m)) <= 1

(***************************************************************************)
(* Properties of the cost analysis and of the provider ranking.            *)
(***************************************************************************)

\* Tokens and cost of every event recorded in the current month, over all
\* provider names.
RECURSIVE RecordedTokens(_)
RecordedTokens(ps) ==
  IF ps = {} THEN 0
  ELSE LET p == CHOOSE x \in ps : TRUE
       IN  recorded[MonthlyKey(p, current_month)].tokens_used + RecordedTokens(ps \ {p})

RECURSIVE RecordedCost(_)
RecordedCost(ps) ==
  IF ps = {} THEN 0
  ELSE LET p == CHOOSE x \in ps : TRUE
       IN  recorded[MonthlyKey(p, current_month)].cost + RecordedCost(ps \ {p})

\* C24: get_cost_analysis sums all providers' usage: after any sequence of
\* record_usage calls in the current month, total_tokens and total_cost are
\* the sums over every recorded event, for every provider name recorded
\* (one without a free-tier limit included).  Stated for a process that is
\* the only one recording, and for costs small enough to add without rounding.
C24_AnalysisSumsAllProviders ==
  \A i \in constructed :
     (constructed = {i} /\ RecordedCost(LedgerProviders \cup FreeTierProviders) < Pow2(FloatPrecision))
       => /\ GetCostAnalysis(i).total_tokens = RecordedTokens(LedgerProviders \cup FreeTierProviders)
          /\ GetCostAnalysis(i).total_cost = RecordedCost(LedgerProviders \cup FreeTierProviders)

\* max(0, limit - tokens_used) of a free-tier provider, from the process's record.
TokensRemaining(i, p) ==
  LET left == free_tier_limits[p] - UsageOf(monthly_usage[i], p).tokens_used
  IN  IF left > 0 THEN left ELSE 0

\* C25: get_provider_ranking returns the providers in ascending order of
\* efficiency score; the score of a provider is its current-month cost,
\* halved exactly when its free-tier tokens_remaining is greater than 0; a
\* provider whose free tier is exhausted keeps its full cost.  (Scores are in
\* units of $0.0005, costs in units of $0.001.)
C25_RankingAscendingByScore ==
  \A i \in constructed :
     LET rankings == GetProviderRanking(i)
     IN  /\ Len(rankings) = Cardinality(FreeTierProviders)
         /\ { rankings[k].provider : k \in 1..Len(rankings) } = FreeTierProviders
         /\ \A k \in 1..Len(rankings) :
               LET p    == rankings[k].provider
                   cost == UsageOf(monthly_usage[i], p).cost
               IN  /\ TokensRemaining(i, p) > 0 => rankings[k].efficiency_score = cost
                   /\ TokensRemaining(i, p) = 0 => rankings[k].efficiency_score = 2 * cost
         /\ \A k, l \in 1..Len(rankings) :
               k < l => rankings[k].efficiency_score <= rankings[l].efficiency_score

\* C25 witness: the provider with the higher cost ranks first because its
\* free tier has tokens left while the other provider's is exhausted.
C25_Witness ==
  /\ 1 \in constructed
  /\ LET rankings == GetProviderRanking(1)
     IN  /\ rankings[1].cost > rankings[2].cost
         /\ rankings[2].cost > 0
         /\ rankings[1].free_tier_remaining > 0
         /\ rankings[2].free_tier_remaining = 0
         /\ rankings[1].efficiency_score < rankings[2].efficiency_score

\* The distinct keywords of a task found in the text.
DistinctMatched(task, text) == { kw \in Range(TaskKeywords(task)) : Contains(text, kw) }

\* C26: the score of every task category is its weight times the number of
\* distinct keywords of the category that occur as substrings of the
\* lower-cased prompt; no keyword is counted more than once for a category.
C26_ScoreCountsDistinctKeywords ==
  detect_pc = "done" =>
     \A t \in 1..Len(TaskOrder) :
        TaskScore(TaskOrder[t], Lower(prompt_text))
          = TaskWeight(TaskOrder[t]) * Cardinality(DistinctMatched(TaskOrder[t], Lower(prompt_text)))

\* The position of a task in the fixed order of the categories.
TaskPosition(task) == CHOOSE t \in 1..Len(TaskOrder) : TaskOrder[t] = task

\* Task a ranks before task b: a higher score, or the same score and an
\* earlier place in the fixed order.
RanksBefore(a, b, text) ==
  \/ TaskScore(a, text) > TaskScore(b, text)
  \/ TaskScore(a, text) = TaskScore(b, text) /\ TaskPosition(a) < TaskPosition(b)

\* The tasks with a positive score, and how many of them rank before a task.
PositiveTasks(text) == { task \in Range(TaskOrder) : TaskScore(task, text) > 0 }
RankOf(task, text) == Cardinality({ other \in PositiveTasks(text) : RanksBefore(other, task, text) }) + 1

\* C27: of two categories with equal positive scores the one earlier in the
\* fixed order ranks first (it is the primary when both are top, and it
\* precedes the other in secondary_tasks); secondary_tasks holds at most two
\* categories and never the primary.
C27_TiesFollowCategoryOrder ==
  (detect_pc = "done" /\ PositiveTasks(Lower(prompt_text)) # {}) =>
     LET text == Lower(prompt_text)
         sec  == detected.secondary_tasks
     IN  /\ RankOf(detected.primary_task, text) = 1
         /\ Len(sec) <= 2
         /\ Len(sec) = (IF Cardinality(PositiveTasks(text)) > 2 THEN 2
                        ELSE Cardinality(PositiveTasks(text)) - 1)
         /\ \A k \in 1..Len(sec) :
               /\ sec[k] \in PositiveTasks(text)
               /\ sec[k] # detected.primary_task
               /\ RankOf(sec[k], text) = k + 1

\* C27 witness: two categories share the top score, the earlier one is the
\* primary and the other leads secondary_tasks, which holds two of the three
\* remaining categories.
C27_Witness ==
  /\ detect_pc = "done"
  /\ Cardinality(PositiveTasks(Lower(prompt_text))) > 3
  /\ Len(detected.secondary_tasks) = 2
  /\ TaskScore(detected.primary_task, Lower(prompt_text))
       = TaskScore(detected.secondary_tasks[1], Lower(prompt_text))
  /\ TaskPosition(detected.primary_task) < TaskPosition(detected.secondary_tasks[1])

(***************************************************************************)
(* Properties of record_usage when the usage record cannot be persisted.   *)
(***************************************************************************)

\* The worker's call is past the SETEX of the hourly counter.
CounterWritten(w) == Called(w) /\ mon_pc[w] # "setex"

\* The worker's call is in, or past, the evaluation of the anomaly rules.
Evaluating(w) == mon_pc[w] \in {"check", "alert_row", "alert_cooldown", "abnormal", "historical"}

\* C28: record_usage increments the counter, persists the usage record and
\* evaluates the rules, in this order; a persist failure (a user_id that is
\* not an integer) is swallowed but ends the call: the counter stays
\* incremented, no rule is evaluated, no alert is created and the window is
\* not updated.
C28_PersistFailureEndsCall ==
  \A w \in Workers :
     LET usage == mon_usage[w]
     IN  /\ CounterWritten(w) =>
              /\ mon_new[w] = mon_current[w] + usage.tokens_used
              /\ redis_usage[UsageKey(usage)] = IntText(mon_new[w])
         /\ Evaluating(w) =>
              /\ CounterWritten(w)
              /\ IntOfUserId(usage.user_id) # -1
              /\ db_requests # << >>
              /\ db_requests[Len(db_requests)] =
                    [user_id |-> IntOfUserId(usage.user_id), model_used |-> usage.model_id,
                     tokens_used |-> usage.tokens_used]
         /\ \A u \in OtherUsers :
               /\ \A t \in AlertTypes : AlertKey(u, t) \notin redis_alert
               /\ \A m \in MonitorModels : redis_historical[<< u, m >>] = Nil
               /\ \A i \in 1..Len(db_alerts) : db_alerts[i].user_id # IntOfUserId(u)
               /\ \A i \in 1..Len(db_requests) : db_requests[i].user_id # IntOfUserId(u)

\* C28 witness: a finished call of a user whose id is not an integer, whose
\* total is above the fraud threshold: the counter holds the total, and there
\* is no usage record, no alert and no window.
C28_Witness ==
  /\ mon_pc[1] = "idle" /\ Called(1)
  /\ mon_usage[1].user_id \in OtherUsers
  /\ mon_current[1] > 0
  /\ mon_new[1] > fraud_threshold
  /\ redis_usage[UsageKey(mon_usage[1])] = IntText(mon_new[1])
  /\ db_requests = << >>
  /\ db_alerts = << >>
  /\ redis_historical[UsageKey(mon_usage[1])] = Nil

(***************************************************************************)
(* Properties of the alert cooldown.                                       *)
(***************************************************************************)

\* C29: the cooldown is keyed by (user, type) only: once an alert of a type
\* exists for a user because of one provider, a threshold crossing of the
\* same user on another provider within the cooldown creates no alert of
\* that type.  (No cooldown key expires in these behaviours.)
C29_CooldownAcrossProviders ==
  \A w \in Workers :
     LET u == mon_usage[w].user_id
         t == mon_rule[w]
     IN  /\ mon_pc[w] = "alert_row" => AlertsOf(u, t) = << >>
         /\ mon_pc[w] = "alert_cooldown" =>
               /\ Len(AlertsOf(u, t)) = 1
               /\ AlertsOf(u, t)[1].usage = mon_new[w]
         /\ (Called(w) /\ mon_pc[w] = "idle") =>
               \A type \in AlertTypes : Len(AlertsOf(u, type)) <= 1

\* C29 witness: the user is above the fraud threshold on both providers and
\* has one spike and one fraud alert, those of the first provider's total.
C29_Witness ==
  LET u     == mon_usage[1].user_id
      m     == mon_usage[1].model_id
      other == CHOOSE x \in MonitorModels : x # m
  IN  /\ mon_pc[1] = "idle" /\ Called(1)
      /\ StoredCounter(u, m) > fraud_threshold
      /\ StoredCounter(u, other) > fraud_threshold
      /\ Len(RequestsOf(u, m)) = 1
      /\ Len(AlertsOf(u, "spike")) = 1 /\ AlertsOf(u, "spike")[1].usage = StoredCounter(u, other)
      /\ Len(AlertsOf(u, "fraud")) = 1 /\ AlertsOf(u, "fraud")[1].usage = StoredCounter(u, other)

\* A cooldown key exists only for a (user, type) that has a persisted alert.
KeyOnlyWithAlert ==
  \A u \in Users, t \in AlertTypes : AlertKey(u, t) \in redis_alert => AlertsOf(u, t) # << >>

\* A step of worker 1 that leaves the test of a rule whose condition holds
\* while the cooldown key is absent starts the creation of the alert, and
\* the creation commits the row of that total unless the commit raises.
CreatesWhenNoCooldown ==
  LET u     == mon_usage[1].user_id
      t     == mon_rule[1]
      total == mon_new[1]
      data  == redis_historical[UsageKey(mon_usage[1])]
      left  == << mon_pc'[1], mon_rule'[1] >> # << mon_pc[1], mon_rule[1] >>
  IN  /\ (mon_pc[1] = "check" /\ left /\ total > ThresholdOf(t)
            /\ AlertKey(u, t) \notin redis_alert)
           => mon_pc'[1] = "alert_row"
      /\ (mon_pc[1] = "abnormal" /\ left /\ data # Nil
            /\ total * Len(LoadsList(data)) > 3 * SumSeq(LoadsList(data))
            /\ AlertKey(u, "abnormal") \notin redis_alert)
           => mon_pc'[1] = "alert_row"
      /\ (mon_pc[1] = "alert_row" /\ left)
           => \/ db_alerts' = Append(db_alerts,
                                     [user_id |-> IntOfUserId(u), alert_type |-> t,
                                      severity |-> IF t = "fraud" THEN "high" ELSE "medium",
                                      usage |-> total])
              \/ << u, t, total >> \in alert_failures'

\* C30: the cooldown key is set only when an alert was actually persisted,
\* and once it has expired the next record_usage call whose total still
\* crosses the threshold creates a new alert.
C30_KeyFollowsAlertAndExpires ==
  [] KeyOnlyWithAlert /\ [][CreatesWhenNoCooldown]_vars

\* C30 witness: the user has two spike alerts, the second created after the
\* cooldown key of the first had expired, and the key is set again.
C30_Witness ==
  /\ mon_pc[1] = "idle"
  /\ Len(AlertsOf("1", "spike")) = 2
  /\ AlertKey("1", "spike") \in redis_alert
  /\ \A k \in 1..2 : << "1", "spike", AlertsOf("1", "spike")[k].usage >> \notin alert_failures

====
